---- MODULE Spec2Model ----
(***************************************************************************)
(* Dumbbell rep counter: the motion-analysis core of the repository.       *)
(*                                                                         *)
(* Numbers.  The program computes on IEEE doubles.  The model computes on  *)
(* fixed-point integers with three decimals: the integer n stands for      *)
(* n / Scale, so 9.81 is 9810, a unit vector has length 1000 and a ratio   *)
(* of 0.6 is 600.  Division truncates toward zero.  Timestamps are whole   *)
(* milliseconds, as Date.now() returns them.                               *)
(***************************************************************************)
EXTENDS Integers, Sequences, FiniteSets, TLC

Scale == 10 * 10 * 10

Abs(x) == IF x < 0 THEN -x ELSE x

\* The element of a one-element set.  { F(x) : x \in {e} } computes e once
\* and F on its value.
The(S) == CHOOSE x \in S : TRUE

\* NaN, a value of its own among the numbers: arithmetic on it gives NaN and
\* every comparison with it is false.
NaN == -1000000000

\* Quotient truncated toward zero, b > 0.
Div(a, b) == IF a >= 0 THEN a \div b ELSE -((-a) \div b)

RECURSIVE SqrtIter(_, _, _)
SqrtIter(n, lo, hi) ==
    IF lo >= hi THEN lo
    ELSE LET m == (lo + hi + 1) \div 2
         IN  IF m * m <= n THEN SqrtIter(n, m, hi) ELSE SqrtIter(n, lo, m - 1)

\* Largest r with r * r <= n.
Sqrt(n) == SqrtIter(n, 0, 46340)

\* Math.hypot of three components.
Hypot(a, b, c) == Sqrt(a * a + b * b + c * c)

(***************************************************************************)
(* CONFIG of the selected-exercise detector (part_000, first program).     *)
(***************************************************************************)
FS == 50
LP_ALPHA == 250
ACC_ALPHA == 500
BUFFER_SIZE == 20

Exercises ==
    {"NORMAL_CURL", "HAMMER_CURL", "CROSSBODY_HAMMER", "ARNOLD_PRESS", "GOBLET_SQUAT"}

EXERCISE_THRESHOLDS ==
    [e \in Exercises |->
       CASE e = "NORMAL_CURL" ->
              [MIN_GYRO |-> 800, MIN_REP_GYRO |-> 2000, ENERGY_THRESH |-> 1500,
               MIN_REP_MS |-> 950, MIN_U_RATIO |-> 600, MAX_V_RATIO |-> 300]
         [] e = "HAMMER_CURL" ->
              [MIN_GYRO |-> 800, MIN_REP_GYRO |-> 1500, ENERGY_THRESH |-> 2000,
               MIN_REP_MS |-> 800, MIN_V_RATIO |-> 600, MAX_U_RATIO |-> 300]
         [] e = "CROSSBODY_HAMMER" ->
              [MIN_GYRO |-> 1000, MIN_REP_GYRO |-> 2000, ENERGY_THRESH |-> 3000,
               MIN_REP_MS |-> 1200, MIN_V_RATIO |-> 700]
         [] e = "ARNOLD_PRESS" ->
              [MIN_GYRO |-> 1200, MIN_REP_GYRO |-> 2500, ENERGY_THRESH |-> 4000,
               MIN_REP_MS |-> 1200, MIN_W_RATIO |-> 500]
         [] e = "GOBLET_SQUAT" ->
              [MIN_GYRO |-> 600, MIN_REP_GYRO |-> 1000, ENERGY_THRESH |-> 5000,
               MIN_REP_MS |-> 1500, MIN_AZ_AMPLITUDE |-> 2000, MIN_W_ACC |-> 1500]]

(***************************************************************************)
(* VECTOR UTILS.  Vectors are triples <<x, y, z>>.                         *)
(***************************************************************************)
\* Math.hypot(v) || 1 : a zero length is replaced by 1.
mag(v) == LET h == Hypot(v[1], v[2], v[3]) IN IF h = 0 THEN Scale ELSE h

normalize(v) ==
    LET m == mag(v)
    IN  << Div(v[1] * Scale, m), Div(v[2] * Scale, m), Div(v[3] * Scale, m) >>

dot(a, b) == Div(a[1] * b[1] + a[2] * b[2] + a[3] * b[3], Scale)

cross(a, b) ==
    << Div(a[2] * b[3] - a[3] * b[2], Scale),
       Div(a[3] * b[1] - a[1] * b[3], Scale),
       Div(a[1] * b[2] - a[2] * b[1], Scale) >>

(***************************************************************************)
(* PEAK DETECTOR.  A peak detector is [window, peaks]; a window entry is   *)
(* [value, timestamp, id], where id numbers the pushed samples (history    *)
(* only: the program keeps value and timestamp).                           *)
(***************************************************************************)
NoPeak == [some |-> FALSE, value |-> 0, timestamp |-> 0, id |-> 0]

createPeakDetector == [window |-> << >>, peaks |-> << >>]

\* window.push, then window.shift() when more than 5 samples are held.
pushWindow(window, value, timestamp, id) ==
    LET w == Append(window, [value |-> value, timestamp |-> timestamp, id |-> id])
    IN  IF Len(w) > 5 THEN Tail(w) ELSE w

\* Index (1-based) of window[Math.floor(window.length / 2)].
midIndex(w) == (Len(w) \div 2) + 1

\* isPeak that asks for a strict local maximum.
isPeak_strict(w) ==
    \A idx \in 1..Len(w) : idx = midIndex(w) \/ w[idx].value < w[midIndex(w)].value

isPeak(w) ==
    \A idx \in 1..Len(w) : idx = midIndex(w) \/ w[idx].value <= w[midIndex(w)].value

\* peakDetector.detect: the new detector state and the returned peak.
detect(pd, value, timestamp, id) ==
    LET w == pushWindow(pd.window, value, timestamp, id)
    IN  IF Len(w) < 3
        THEN [pd |-> [pd EXCEPT !.window = w], peak |-> NoPeak]
        ELSE IF isPeak(w)
             THEN LET m  == w[midIndex(w)]
                      pk == [value |-> m.value, timestamp |-> m.timestamp]
                      ps == Append(pd.peaks, pk)
                  IN  [pd   |-> [window |-> w,
                                 peaks  |-> IF Len(ps) > 10 THEN Tail(ps) ELSE ps],
                       peak |-> [some |-> TRUE, value |-> m.value,
                                 timestamp |-> m.timestamp, id |-> m.id]]
             ELSE [pd |-> [pd EXCEPT !.window = w], peak |-> NoPeak]

(***************************************************************************)
(* EXERCISE DETECTOR (selected exercise).  A detector is a record of the   *)
(* closure's variables.  accBuffer and exerciseFeatures are never read by  *)
(* the program and are left out.                                           *)
(***************************************************************************)
ZeroStats == [e \in Exercises |-> [good |-> 0, bad |-> 0, total |-> 0]]

createExerciseDetector(selectedExercise) ==
    [exerciseStats      |-> ZeroStats,
     currentExercise    |-> selectedExercise,
     lastRepTime        |-> 0,
     state              |-> "IDLE",
     energy             |-> 0,
     lpFilter           |-> 0,
     gVec               |-> <<0, 0, 9810>>,
     gyroBuffer         |-> << >>,
     accMagnitudeBuffer |-> << >>,
     peakDetector       |-> createPeakDetector]

resetForNewExercise(d) ==
    [d EXCEPT !.state = "IDLE",
              !.energy = 0,
              !.lpFilter = 0,
              !.gyroBuffer = << >>,
              !.accMagnitudeBuffer = << >>,
              !.peakDetector = createPeakDetector]

RECURSIVE SumSeq(_)
SumSeq(s) == IF s = << >> THEN 0 ELSE Head(s) + SumSeq(Tail(s))

\* pushBuffer without the shift: the buffer grows with every sample.
pushBuffer_unbounded(buf, x) == Append(buf, x)

\* buffer.push(x); if (buffer.length > BUFFER_SIZE) buffer.shift()
pushBuffer(buf, x) ==
    LET b == Append(buf, x) IN IF Len(b) > BUFFER_SIZE THEN Tail(b) ELSE b

\* gVec[i] = (1 - alpha) * gVec[i] + alpha * acc[i]
blendGravity(gVec, acc, alpha) ==
    << Div((Scale - alpha) * gVec[1] + alpha * acc[1], Scale),
       Div((Scale - alpha) * gVec[2] + alpha * acc[2], Scale),
       Div((Scale - alpha) * gVec[3] + alpha * acc[3], Scale) >>

\* The frame {u, v, w} built from the unit gravity vector g.
gravityFrame(g) ==
    The({ [u |-> u, v |-> cross(g, u), w |-> g]
          : u \in { normalize(IF mag(u0) < 100 THEN cross(g, <<0, Scale, 0>>) ELSE u0)
                    : u0 \in {cross(g, <<Scale, 0, 0>>)} } })

\* axisEnergies.indexOf(Math.max(...axisEnergies)), 0-based
dominantAxisOf(gU, gV, gW) ==
    IF Abs(gU) >= Abs(gV) /\ Abs(gU) >= Abs(gW) THEN 0
    ELSE IF Abs(gV) >= Abs(gW) THEN 1 ELSE 2

\* axisRatio without the floor: 0 / 0 is NaN.
axisRatio_noFloor(x, gyroMag) ==
    IF gyroMag = 0 THEN NaN ELSE Div(Abs(x) * Scale, gyroMag)

\* Math.abs(x) / (gyroMag || 1)
axisRatio(x, gyroMag) == Div(Abs(x) * Scale, IF gyroMag = 0 THEN Scale ELSE gyroMag)

\* Projections of gyro and acc onto the frame, and the magnitudes.
projectSample(gyro, acc, fr) ==
    [gU |-> dot(gyro, fr.u), gV |-> dot(gyro, fr.v), gW |-> dot(gyro, fr.w),
     aU |-> dot(acc, fr.u),  aV |-> dot(acc, fr.v),  aW |-> dot(acc, fr.w),
     accMag |-> Hypot(acc[1], acc[2], acc[3])]

\* The returned feature record, from the projections p and the buffers.
featureSet(p, gyroMag, gb, ab) ==
    [gU |-> p.gU, gV |-> p.gV, gW |-> p.gW,
     aU |-> p.aU, aV |-> p.aV, aW |-> p.aW,
     gyroMag |-> gyroMag, accMag |-> p.accMag, verticalAcc |-> p.aW,
     avgGyro |-> Div(SumSeq(gb), Len(gb)),
     avgAcc  |-> Div(SumSeq(ab), Len(ab)),
     dominantAxis |-> dominantAxisOf(p.gU, p.gV, p.gW),
     axisRatios |-> [gURatio |-> axisRatio(p.gU, gyroMag),
                     gVRatio |-> axisRatio(p.gV, gyroMag),
                     gWRatio |-> axisRatio(p.gW, gyroMag)]]

\* extractFeatures with gravity smoothing alpha: the detector with the new
\* gravity estimate and buffers, and the features of this sample.
extractFeaturesWith(d, gyro, acc, alpha) ==
    The({ The({ The({ The({
        [det |-> [d EXCEPT !.gVec = gVec,
                           !.gyroBuffer = pushBuffer(d.gyroBuffer, gyroMag),
                           !.accMagnitudeBuffer = pushBuffer(d.accMagnitudeBuffer, p.accMag)],
         features |-> featureSet(p, gyroMag, pushBuffer(d.gyroBuffer, gyroMag),
                                 pushBuffer(d.accMagnitudeBuffer, p.accMag))]
        : gyroMag \in {Hypot(p.gU, p.gV, p.gW)} })
        : p \in {projectSample(gyro, acc, fr)} })
        : fr \in {gravityFrame(normalize(gVec))} })
        : gVec \in {blendGravity(d.gVec, acc, alpha)} })

extractFeatures(d, gyro, acc) == extractFeaturesWith(d, gyro, acc, ACC_ALPHA)

\* Check if rep has good form.
checkGoodForm(features, exerciseType) ==
    LET r  == features.axisRatios
        th == EXERCISE_THRESHOLDS[exerciseType]
    IN  CASE exerciseType = "NORMAL_CURL" ->
               /\ r.gURatio >= th.MIN_U_RATIO
               /\ r.gVRatio <= th.MAX_V_RATIO
               /\ features.gyroMag * 10 >= th.MIN_REP_GYRO * 7
          [] exerciseType = "HAMMER_CURL" ->
               /\ r.gVRatio >= th.MIN_V_RATIO
               /\ r.gURatio <= th.MAX_U_RATIO
               /\ features.gyroMag * 10 >= th.MIN_REP_GYRO * 7
          [] exerciseType = "CROSSBODY_HAMMER" ->
               /\ r.gVRatio >= th.MIN_V_RATIO
               /\ Abs(features.gV) * 10 > Abs(features.gU) * 15
          [] exerciseType = "ARNOLD_PRESS" ->
               /\ r.gWRatio >= th.MIN_W_RATIO
               /\ Abs(features.gW) > Abs(features.gU)
               /\ Abs(features.gW) > Abs(features.gV)
          [] exerciseType = "GOBLET_SQUAT" ->
               /\ Abs(features.aW) >= th.MIN_W_ACC
               /\ features.gyroMag < 2000
          [] OTHER -> FALSE

\* lpFilter.value = alpha * gyroMag + (1 - alpha) * lpFilter.value
lowPass(prev, gyroMag, alpha) == Div(alpha * gyroMag + (Scale - alpha) * prev, Scale)

\* movementStep without the lower threshold: MOVING is left as soon as the
\* sample is not above MIN_GYRO.
movementStep_noHysteresis(state, energy, gyroMag, minGyro) ==
    IF gyroMag > minGyro
    THEN IF state = "IDLE" THEN [state |-> "MOVING", energy |-> 0]
                           ELSE [state |-> state, energy |-> energy]
    ELSE [state |-> "IDLE", energy |-> energy]

\* movementStep that keeps the energy gathered while IDLE when it enters
\* MOVING.
movementStep_keepsEnergy(state, energy, gyroMag, minGyro) ==
    IF gyroMag > minGyro
    THEN [state |-> "MOVING", energy |-> energy]
    ELSE IF gyroMag * 10 < minGyro * 3 /\ state = "MOVING"
         THEN [state |-> "IDLE", energy |-> energy]
         ELSE [state |-> state, energy |-> energy]

\* movementStep that enters MOVING on any sample, whatever its magnitude.
movementStep_noThreshold(state, energy, gyroMag, minGyro) ==
    IF state = "IDLE" THEN [state |-> "MOVING", energy |-> 0]
                      ELSE [state |-> state, energy |-> energy]

\* "Check if we're in a movement": the state and energy after the threshold
\* step, given the energy already increased by this sample.
movementStep(state, energy, gyroMag, minGyro) ==
    IF gyroMag > minGyro
    THEN IF state = "IDLE" THEN [state |-> "MOVING", energy |-> 0]
                           ELSE [state |-> state, energy |-> energy]
    ELSE IF gyroMag * 10 < minGyro * 3 /\ state = "MOVING"
         THEN [state |-> "IDLE", energy |-> energy]
         ELSE [state |-> state, energy |-> energy]

\* repGate without the refractory period.
repGate_noRefractory(peakValue, timestamp, lastRepTime, th) ==
    peakValue > th.MIN_REP_GYRO

\* peakValue > MIN_REP_GYRO && timeSinceLastRep > MIN_REP_MS
repGate(peakValue, timestamp, lastRepTime, th) ==
    /\ peakValue > th.MIN_REP_GYRO
    /\ timestamp - lastRepTime > th.MIN_REP_MS

\* isValidRep with >= between the axes of the two curls.
isValidRep_nonStrict(exercise, features, energy, th) ==
    CASE exercise = "GOBLET_SQUAT"     -> Abs(features.verticalAcc) > th.MIN_AZ_AMPLITUDE
      [] exercise = "ARNOLD_PRESS"     -> features.axisRatios.gWRatio > 500
      [] exercise = "CROSSBODY_HAMMER" ->
             features.axisRatios.gVRatio * 10 > features.axisRatios.gURatio * 12
      [] exercise = "HAMMER_CURL"      ->
             features.axisRatios.gVRatio >= features.axisRatios.gURatio
      [] exercise = "NORMAL_CURL"      ->
             features.axisRatios.gURatio >= features.axisRatios.gVRatio
      [] OTHER                         -> energy > th.ENERGY_THRESH

\* The switch on currentExercise that sets isValidRep.
isValidRep(exercise, features, energy, th) ==
    CASE exercise = "GOBLET_SQUAT"     -> Abs(features.verticalAcc) > th.MIN_AZ_AMPLITUDE
      [] exercise = "ARNOLD_PRESS"     -> features.axisRatios.gWRatio > 500
      [] exercise = "CROSSBODY_HAMMER" ->
             features.axisRatios.gVRatio * 10 > features.axisRatios.gURatio * 12
      [] exercise = "HAMMER_CURL"      ->
             features.axisRatios.gVRatio > features.axisRatios.gURatio
      [] exercise = "NORMAL_CURL"      ->
             features.axisRatios.gURatio > features.axisRatios.gVRatio
      [] OTHER                         -> energy > th.ENERGY_THRESH

\* countRep that forgets bad++.
countRep_noBad(stats, exercise, isGoodForm) ==
    IF exercise \in DOMAIN stats
    THEN [stats EXCEPT ![exercise] =
            [good  |-> IF isGoodForm THEN @.good + 1 ELSE @.good,
             bad   |-> @.bad,
             total |-> @.total + 1]]
    ELSE stats

\* countRep that counts a rep only when its form is good.
countRep_onlyGood(stats, exercise, isGoodForm) ==
    IF exercise \in DOMAIN stats /\ isGoodForm
    THEN [stats EXCEPT ![exercise] =
            [good |-> @.good + 1, bad |-> @.bad, total |-> @.total + 1]]
    ELSE stats

\* countRep that counts the rep for every exercise.
countRep_everyExercise(stats, exercise, isGoodForm) ==
    [e \in DOMAIN stats |->
        [good  |-> IF isGoodForm THEN stats[e].good + 1 ELSE stats[e].good,
         bad   |-> IF isGoodForm THEN stats[e].bad ELSE stats[e].bad + 1,
         total |-> stats[e].total + 1]]

\* exerciseStats[currentExercise].total++ and good++ or bad++
countRep(stats, exercise, isGoodForm) ==
    IF exercise \in DOMAIN stats
    THEN [stats EXCEPT ![exercise] =
            [good  |-> IF isGoodForm THEN @.good + 1 ELSE @.good,
             bad   |-> IF isGoodForm THEN @.bad ELSE @.bad + 1,
             total |-> @.total + 1]]
    ELSE stats

\* confirmRep that leaves the movement state as it is.
confirmRep_keepsMoving(d, exercise, isGoodForm, timestamp) ==
    [d EXCEPT !.lastRepTime = timestamp,
              !.exerciseStats = countRep(d.exerciseStats, exercise, isGoodForm)]

\* The block run when isValidRep is true.
confirmRep(d, exercise, isGoodForm, timestamp) ==
    [d EXCEPT !.lastRepTime = timestamp,
              !.exerciseStats = countRep(d.exerciseStats, exercise, isGoodForm),
              !.state = "IDLE",
              !.energy = 0]

NoExercise == ""

\* "Rep detection conditions": the end of detectRep, given the filtered
\* value, the detector's answer pk and the movement step's result mv.
confirmStep(d, features, timestamp, pk, mv, filteredGyro) ==
    LET th    == EXERCISE_THRESHOLDS[d.currentExercise]
        d1    == [d EXCEPT !.lpFilter = filteredGyro,
                           !.peakDetector = pk.pd,
                           !.state = mv.state,
                           !.energy = mv.energy]
        valid == /\ pk.peak.some
                 /\ mv.state = "MOVING"
                 /\ repGate(pk.peak.value, timestamp, d.lastRepTime, th)
                 /\ isValidRep(d.currentExercise, features, mv.energy, th)
        good  == valid /\ checkGoodForm(features, d.currentExercise)
    IN  [det |-> IF valid THEN confirmRep(d1, d.currentExercise, good, timestamp)
                          ELSE d1,
         repDetected  |-> valid,
         isGoodForm   |-> good,
         exerciseType |-> d.currentExercise,
         peak         |-> pk.peak]

\* Rep detection logic.  The result carries, beside the program's
\* {repDetected, isGoodForm, exerciseType}, the peak the detector returned.
detectRep(d, features, timestamp, id) ==
    IF d.currentExercise = NoExercise
    THEN [det |-> d, repDetected |-> FALSE, isGoodForm |-> FALSE,
          exerciseType |-> d.currentExercise, peak |-> NoPeak]
    ELSE
    The({ The({ The({ confirmStep(d, features, timestamp, pk, mv, filteredGyro)
        : mv \in {movementStep(d.state, d.energy + Div(filteredGyro, FS),
                               features.gyroMag,
                               EXERCISE_THRESHOLDS[d.currentExercise].MIN_GYRO)} })
        : pk \in {detect(d.peakDetector, filteredGyro, timestamp, id)} })
        : filteredGyro \in {lowPass(d.lpFilter, features.gyroMag, LP_ALPHA)} })

\* update(gyro, acc) at Date.now() = timestamp: the new detector and the
\* returned result.
update(d, gyro, acc, timestamp, id) ==
    The({ The({
        [det |-> r.det,
         out |-> [value         |-> ef.features.gyroMag,
                  repDetected   |-> r.repDetected,
                  isGoodForm    |-> r.isGoodForm,
                  exercise      |-> r.det.currentExercise,
                  exerciseStats |-> r.det.exerciseStats,
                  state         |-> r.det.state,
                  energy        |-> r.det.energy,
                  features      |-> ef.features,
                  timestamp     |-> timestamp,
                  peak          |-> r.peak]]
        : r \in {detectRep(ef.det, ef.features, timestamp, id)} })
        : ef \in {extractFeatures(d, gyro, acc)} })

\* update(gyro, acc) on a detector whose currentExercise may be a string that
\* is not a key of EXERCISE_THRESHOLDS.  thresholds is then undefined:
\* detectRep filters, pushes the peak window and adds to energy, and reading
\* thresholds.MIN_GYRO throws a TypeError, which update lets through.
updateAnyKey(d, gyro, acc, timestamp, id) ==
    IF d.currentExercise = NoExercise \/ d.currentExercise \in DOMAIN EXERCISE_THRESHOLDS
    THEN [threw |-> FALSE, r |-> update(d, gyro, acc, timestamp, id)]
    ELSE The({ The({ The({
            [threw |-> TRUE,
             r |-> [det |-> [ef.det EXCEPT !.lpFilter = filteredGyro,
                                           !.peakDetector = pk.pd,
                                           !.energy = @ + Div(filteredGyro, FS)]]]
            : pk \in {detect(ef.det.peakDetector, filteredGyro, timestamp, id)} })
            : filteredGyro \in {lowPass(ef.det.lpFilter, ef.features.gyroMag, LP_ALPHA)} })
            : ef \in {extractFeatures(d, gyro, acc)} })

(***************************************************************************)
(* update on samples that may hold NaN.  The sums and products of update   *)
(* are NaN as soon as one operand is (0 * NaN included), Math.hypot of a   *)
(* NaN is NaN, and a comparison with NaN is false.                         *)
(***************************************************************************)
VecHasNaN(v) == v[1] = NaN \/ v[2] = NaN \/ v[3] = NaN

\* (1 - alpha) * g + alpha * a for one component
blendOrNaN(g, a, alpha) ==
    IF g = NaN \/ a = NaN THEN NaN ELSE Div((Scale - alpha) * g + alpha * a, Scale)

\* gVec[i] = (1 - alpha) * gVec[i] + alpha * acc[i]
blendGravityNaN(gVec, acc, alpha) ==
    << blendOrNaN(gVec[1], acc[1], alpha), blendOrNaN(gVec[2], acc[2], alpha),
       blendOrNaN(gVec[3], acc[3], alpha) >>

\* gyroMag = Math.hypot(gU, gV, gW): NaN when gyro or the gravity estimate
\* holds a NaN, since w = g / mag(g) (mag is then NaN || 1 = 1) keeps the NaN
\* and gW = dot(gyro, w) has a NaN term.
gyroMagNaN(gyro, acc, gVec) ==
    IF VecHasNaN(gyro) \/ VecHasNaN(gVec) THEN NaN
    ELSE The({ Hypot(p.gU, p.gV, p.gW)
               : p \in {projectSample(gyro, acc, gravityFrame(normalize(gVec)))} })

\* detectRep when gyroMag or lpFilter.value is NaN: filteredGyro is NaN, the
\* window gains a NaN (so window.every(...) is false and peak is null),
\* energy += NaN, and the threshold step runs on gyroMag (both comparisons
\* false when it is NaN).  No rep is confirmed.
detectRepNaN(d, gyroMag) ==
    LET mv == IF gyroMag = NaN THEN [state |-> d.state, energy |-> NaN]
              ELSE movementStep(d.state, NaN, gyroMag,
                                EXERCISE_THRESHOLDS[d.currentExercise].MIN_GYRO)
    IN  [d EXCEPT !.lpFilter = NaN, !.state = mv.state, !.energy = mv.energy]

\* update(gyro, acc) where a component of gyro or acc may be NaN, on a
\* detector with an exercise selected.
updateNaN(d, gyro, acc, timestamp, id) ==
    LET gVec    == blendGravityNaN(d.gVec, acc, ACC_ALPHA)
        gyroMag == gyroMagNaN(gyro, acc, gVec)
        accMag  == IF VecHasNaN(acc) THEN NaN ELSE Hypot(acc[1], acc[2], acc[3])
    IN  IF gyroMag # NaN /\ d.lpFilter # NaN
        THEN update(d, gyro, acc, timestamp, id)
        ELSE LET d1 == [d EXCEPT
                          !.gVec = gVec,
                          !.gyroBuffer = pushBuffer(@, gyroMag),
                          !.accMagnitudeBuffer = pushBuffer(@, accMag),
                          !.peakDetector.window = pushWindow(@, NaN, timestamp, id)]
                 d2 == detectRepNaN(d1, gyroMag)
             IN  [det |-> d2,
                  out |-> [value         |-> gyroMag,
                           repDetected   |-> FALSE,
                           isGoodForm    |-> FALSE,
                           exercise      |-> d2.currentExercise,
                           exerciseStats |-> d2.exerciseStats,
                           state         |-> d2.state,
                           energy        |-> d2.energy,
                           timestamp     |-> timestamp,
                           peak          |-> NoPeak]]

\* reset that keeps the counts.
reset_keepsStats(d) ==
    resetForNewExercise([d EXCEPT !.state = "IDLE", !.lastRepTime = 0])

reset(d) ==
    resetForNewExercise([d EXCEPT !.exerciseStats = ZeroStats,
                                  !.state = "IDLE",
                                  !.lastRepTime = 0])

\* setExercise that also forgets the last rep, as reset does.
setExercise_clearsLastRep(d, exercise) ==
    resetForNewExercise([d EXCEPT !.currentExercise = exercise, !.lastRepTime = 0])

setExercise(d, exercise) ==
    resetForNewExercise([d EXCEPT !.currentExercise = exercise])

(***************************************************************************)
(* EXERCISE DETECTOR (auto-detect), the second program of part_000.  Its   *)
(* CONFIG, vector utils and peak detector repeat the first program's with  *)
(* other numbers; names that clash carry the suffix _AUTO or Auto.         *)
(***************************************************************************)
FS_AUTO == 10
LP_ALPHA_AUTO == 300
ACC_ALPHA_AUTO == 100

EXERCISE_THRESHOLDS_AUTO ==
    [e \in Exercises |->
       CASE e = "NORMAL_CURL" ->
              [MIN_GYRO |-> 800, MIN_REP_GYRO |-> 1500, ENERGY_THRESH |-> 2000,
               MIN_REP_MS |-> 800]
         [] e = "HAMMER_CURL" ->
              [MIN_GYRO |-> 800, MIN_REP_GYRO |-> 1500, ENERGY_THRESH |-> 2000,
               MIN_REP_MS |-> 800]
         [] e = "CROSSBODY_HAMMER" ->
              [MIN_GYRO |-> 1000, MIN_REP_GYRO |-> 2000, ENERGY_THRESH |-> 3000,
               MIN_REP_MS |-> 1000]
         [] e = "ARNOLD_PRESS" ->
              [MIN_GYRO |-> 1200, MIN_REP_GYRO |-> 2500, ENERGY_THRESH |-> 4000,
               MIN_REP_MS |-> 1200]
         [] e = "GOBLET_SQUAT" ->
              [MIN_GYRO |-> 600, MIN_REP_GYRO |-> 1000, ENERGY_THRESH |-> 5000,
               MIN_REP_MS |-> 1500, MIN_AZ_AMPLITUDE |-> 2000]]

ZeroCounts == [e \in Exercises |-> 0]

ZeroAccuracy == [e \in Exercises |-> [correct |-> 0, total |-> 0]]

\* createExerciseDetector() called when Date.now() = t.
createAutoDetector(t) ==
    [repCounts          |-> ZeroCounts,
     accuracyStats      |-> ZeroAccuracy,
     missedReps         |-> 0,
     currentExercise    |-> NoExercise,
     lastRepTime        |-> 0,
     lastExerciseChange |-> t,
     state              |-> "IDLE",
     energy             |-> 0,
     lpFilter           |-> 0,
     gVec               |-> <<0, 0, 9810>>,
     gyroBuffer         |-> << >>,
     accMagnitudeBuffer |-> << >>,
     peakDetector       |-> createPeakDetector]

\* classifyExercise that tries the hammer curl before the crossbody hammer.
classifyExercise_hammerFirst(features) ==
    LET r == features.axisRatios
    IN  IF /\ Abs(features.verticalAcc) > 1500
           /\ features.gyroMag < 2000
           /\ features.accMag > 8000
        THEN "GOBLET_SQUAT"
        ELSE IF r.gWRatio > 600 /\ features.gyroMag > 1500
                /\ Abs(features.verticalAcc) > 500
        THEN "ARNOLD_PRESS"
        ELSE IF r.gVRatio > 400 /\ r.gVRatio > r.gURatio /\ features.gyroMag > 800
        THEN "HAMMER_CURL"
        ELSE IF r.gVRatio > 500 /\ features.gyroMag > 1200
                /\ r.gVRatio * 10 > r.gURatio * 12
        THEN "CROSSBODY_HAMMER"
        ELSE IF r.gURatio > 400 /\ r.gURatio > r.gVRatio /\ features.gyroMag > 800
        THEN "NORMAL_CURL"
        ELSE IF r.gURatio > r.gVRatio /\ r.gURatio > r.gWRatio THEN "NORMAL_CURL"
        ELSE IF r.gVRatio > r.gURatio /\ r.gVRatio > r.gWRatio THEN "HAMMER_CURL"
        ELSE IF r.gWRatio > r.gURatio /\ r.gWRatio > r.gVRatio THEN "ARNOLD_PRESS"
        ELSE NoExercise

\* Exercise classification: the first rule that matches, NoExercise (null)
\* when none does.
classifyExercise(features) ==
    LET r == features.axisRatios
    IN  IF /\ Abs(features.verticalAcc) > 1500
           /\ features.gyroMag < 2000
           /\ features.accMag > 8000
        THEN "GOBLET_SQUAT"
        ELSE IF r.gWRatio > 600 /\ features.gyroMag > 1500
                /\ Abs(features.verticalAcc) > 500
        THEN "ARNOLD_PRESS"
        ELSE IF r.gVRatio > 500 /\ features.gyroMag > 1200
                /\ r.gVRatio * 10 > r.gURatio * 12
        THEN "CROSSBODY_HAMMER"
        ELSE IF r.gVRatio > 400 /\ r.gVRatio > r.gURatio /\ features.gyroMag > 800
        THEN "HAMMER_CURL"
        ELSE IF r.gURatio > 400 /\ r.gURatio > r.gVRatio /\ features.gyroMag > 800
        THEN "NORMAL_CURL"
        ELSE IF r.gURatio > r.gVRatio /\ r.gURatio > r.gWRatio THEN "NORMAL_CURL"
        ELSE IF r.gVRatio > r.gURatio /\ r.gVRatio > r.gWRatio THEN "HAMMER_CURL"
        ELSE IF r.gWRatio > r.gURatio /\ r.gWRatio > r.gVRatio THEN "ARNOLD_PRESS"
        ELSE NoExercise

\* The block run when isValidRep is true (auto-detect): repCounts and, with
\* a ground truth, accuracyStats.
confirmRepAuto(d, exercise, timestamp, groundTruthExercise) ==
    [d EXCEPT !.lastRepTime = timestamp,
              !.repCounts = IF exercise \in DOMAIN @
                            THEN [@ EXCEPT ![exercise] = @ + 1] ELSE @,
              !.accuracyStats =
                  IF groundTruthExercise \in DOMAIN @
                  THEN [@ EXCEPT ![groundTruthExercise] =
                          [correct |-> IF exercise = groundTruthExercise
                                       THEN @.correct + 1 ELSE @.correct,
                           total   |-> @.total + 1]]
                  ELSE @,
              !.state = "IDLE",
              !.energy = 0]

\* missedRepStep without the 3000 ms timeout.
missedRepStep_noTimeout(d, timestamp, th) ==
    IF d.state = "MOVING" /\ d.energy * 2 > th.ENERGY_THRESH
    THEN [d EXCEPT !.missedReps = @ + 1, !.state = "IDLE", !.energy = 0]
    ELSE d

\* "Check for missed reps (if we've been moving but no rep detected)"
missedRepStep(d, timestamp, th) ==
    IF /\ d.state = "MOVING"
       /\ timestamp - d.lastRepTime > 3000
       /\ d.energy * 2 > th.ENERGY_THRESH
    THEN [d EXCEPT !.missedReps = @ + 1, !.state = "IDLE", !.energy = 0]
    ELSE d

\* The end of the auto-detect detectRep: rep conditions, then missed reps.
\* mid is the detector between the two.
confirmStepAuto(d, features, timestamp, groundTruthExercise, pk, mv, filteredGyro) ==
    LET th    == EXERCISE_THRESHOLDS_AUTO[d.currentExercise]
        d1    == [d EXCEPT !.lpFilter = filteredGyro,
                           !.peakDetector = pk.pd,
                           !.state = mv.state,
                           !.energy = mv.energy]
        valid == /\ pk.peak.some
                 /\ mv.state = "MOVING"
                 /\ repGate(pk.peak.value, timestamp, d.lastRepTime, th)
                 /\ isValidRep(d.currentExercise, features, mv.energy, th)
    IN  The({ [det |-> missedRepStep(d2, timestamp, th),
               mid |-> d2,
               repDetected |-> valid,
               detectedExerciseType |-> d.currentExercise,
               peak |-> pk.peak]
              : d2 \in {IF valid
                        THEN confirmRepAuto(d1, d.currentExercise, timestamp,
                                            groundTruthExercise)
                        ELSE d1} })

\* Rep detection logic (auto-detect).
detectRepAuto(d, features, timestamp, groundTruthExercise, id) ==
    IF d.currentExercise = NoExercise
    THEN [det |-> d, mid |-> d, repDetected |-> FALSE,
          detectedExerciseType |-> NoExercise, peak |-> NoPeak]
    ELSE
    The({ The({ The({ confirmStepAuto(d, features, timestamp, groundTruthExercise,
                                      pk, mv, filteredGyro)
        : mv \in {movementStep(d.state, d.energy + Div(filteredGyro, FS_AUTO),
                               features.gyroMag,
                               EXERCISE_THRESHOLDS_AUTO[d.currentExercise].MIN_GYRO)} })
        : pk \in {detect(d.peakDetector, filteredGyro, timestamp, id)} })
        : filteredGyro \in {lowPass(d.lpFilter, features.gyroMag, LP_ALPHA_AUTO)} })

\* reclassify that classifies on every update.
reclassify_noCooldown(d, features, timestamp) ==
    LET detectedExercise == classifyExercise(features)
    IN  IF detectedExercise # NoExercise /\ detectedExercise # d.currentExercise
        THEN resetForNewExercise([d EXCEPT !.currentExercise = detectedExercise,
                                           !.lastExerciseChange = timestamp])
        ELSE d

\* "Exercise classification (if not set or it's been a while)" and "If still
\* no exercise, try to detect": the detector after both blocks.
reclassify(d, features, timestamp) ==
    LET first == IF d.currentExercise = NoExercise
                    \/ timestamp - d.lastExerciseChange > 5000
                 THEN LET detectedExercise == classifyExercise(features)
                      IN  IF detectedExercise # NoExercise
                             /\ detectedExercise # d.currentExercise
                          THEN resetForNewExercise(
                                 [d EXCEPT !.currentExercise = detectedExercise,
                                           !.lastExerciseChange = timestamp])
                          ELSE d
                 ELSE d
    IN  IF first.currentExercise = NoExercise
        THEN LET detectedExercise == classifyExercise(features)
             IN  IF detectedExercise # NoExercise
                 THEN resetForNewExercise(
                        [first EXCEPT !.currentExercise = detectedExercise,
                                      !.lastExerciseChange = timestamp])
                 ELSE first
        ELSE first

\* update(gyro, acc, groundTruthExercise) at Date.now() = timestamp.
updateAuto(d, gyro, acc, groundTruthExercise, timestamp, id) ==
    The({ The({ The({
        [det |-> r.det,
         out |-> [value       |-> ef.features.gyroMag,
                  repDetected |-> r.repDetected,
                  repType     |-> r.detectedExerciseType,
                  exercise    |-> r.det.currentExercise,
                  repCounts   |-> r.det.repCounts,
                  missedReps  |-> r.det.missedReps,
                  state       |-> r.det.state,
                  energy      |-> r.det.energy,
                  features    |-> ef.features,
                  timestamp   |-> timestamp,
                  peak        |-> r.peak,
                  mid         |-> [state |-> r.mid.state, energy |-> r.mid.energy,
                                   lastRepTime |-> r.mid.lastRepTime,
                                   missedReps |-> r.mid.missedReps]]]
        : r \in {detectRepAuto(c, ef.features, timestamp, groundTruthExercise, id)} })
        : c \in {reclassify(ef.det, ef.features, timestamp)} })
        : ef \in {extractFeaturesWith(d, gyro, acc, ACC_ALPHA_AUTO)} })

\* reset() called when Date.now() = t.
resetAuto(d, t) ==
    resetForNewExercise([d EXCEPT !.repCounts = ZeroCounts,
                                  !.accuracyStats = ZeroAccuracy,
                                  !.missedReps = 0,
                                  !.currentExercise = NoExercise,
                                  !.lastRepTime = 0,
                                  !.lastExerciseChange = t])

(***************************************************************************)
(* processIMURealtime(imuBuffer, fs), part_001: batch segmentation of a    *)
(* buffer of samples {ax, ay, az, gx, gy, gz} and nearest-reference        *)
(* classification of its last repetition window.  Numbers are thousandths *)
(* as above.  NaN is a value of its own: arithmetic on it gives NaN and    *)
(* every comparison with it is false.  GYRO_LP and ACC_LP are passed to    *)
(* smooth, which does not read them.                                       *)
(***************************************************************************)
GYRO_MIN_MAG == 50
GYRO_MIN_REP(fs) == (3 * fs) \div 10
GYRO_MIN_ENERGY == 200
ACC_MIN_MAG == 50
ACC_MIN_REP(fs) == (5 * fs) \div 10
MAX_CLASS_DIST == 5000

Channels == <<"ax", "ay", "az", "gx", "gy", "gz">>

\* The keys of REFERENCE_SD in the order for (const k in REFERENCE_SD) visits.
ReferenceLabels == <<"BICEP", "HAMMER", "ARNOLD">>

REFERENCE_SD ==
    [BICEP  |-> [ax |-> 7030, ay |-> 5570, az |-> 1110, gx |-> 340, gy |-> 400, gz |-> 2090],
     HAMMER |-> [ax |-> 3060, ay |-> 1820, az |-> 2850, gx |-> 610, gy |-> 1750, gz |-> 290],
     ARNOLD |-> [ax |-> 5200, ay |-> 6100, az |-> 3400, gx |-> 150, gy |-> 180, gz |-> 220]]

HasNaN(arr) == \E i \in 1..Len(arr) : arr[i] = NaN

\* arr.reduce((a, b) => a + b, 0) / arr.length; 0 / 0 is NaN.
mean(arr) ==
    IF Len(arr) = 0 \/ HasNaN(arr) THEN NaN ELSE Div(SumSeq(arr), Len(arr))

\* Math.sqrt(mean(arr.map(v => (v - m) ** 2)))
std(arr) ==
    IF Len(arr) = 0 \/ HasNaN(arr) THEN NaN
    ELSE The({ Sqrt(Div(SumSeq([i \in 1..Len(arr) |-> (arr[i] - m) * (arr[i] - m)]),
                        Len(arr)))
               : m \in {mean(arr)} })

\* x.slice(s, e) for 0 <= s, e <= x.length: the elements s .. e - 1 (0-based).
slice(x, s, e) == SubSeq(x, s + 1, e)

Max2(a, b) == IF a >= b THEN a ELSE b

Min2(a, b) == IF a <= b THEN a ELSE b

\* out[i] = mean(x.slice(max(0, i - win), min(x.length, i + win)))
movingAverage(x, win) ==
    [k \in 1..Len(x) |-> mean(slice(x, Max2(0, (k - 1) - win), Min2(Len(x), (k - 1) + win)))]

\* smooth(x, cutoff): cutoff is not used.
smooth(x, fs) == movingAverage(x, Max2(1, (2 * fs) \div 10))

\* The column of one channel.
Channel(imuBuffer, c) == [i \in 1..Len(imuBuffer) |-> imuBuffer[i][c]]

\* gyroVars.indexOf(Math.max(...gyroVars)), 0-based; -1 when a standard
\* deviation is NaN (Math.max gives NaN, which indexOf never finds).
gyroAxisIndex(gyroVars) ==
    IF HasNaN(gyroVars) THEN -1
    ELSE CHOOSE a \in 0..2 :
            /\ \A b \in 0..2 : gyroVars[b + 1] <= gyroVars[a + 1]
            /\ \A b \in 0..(a - 1) : gyroVars[b + 1] < gyroVars[a + 1]

\* Math.abs(v) < GYRO_MIN_MAG ? 0 : Math.sign(v)
signOf(v) == IF Abs(v) < GYRO_MIN_MAG THEN 0 ELSE IF v > 0 THEN 1 ELSE -1

AbsSum(x) == SumSeq([i \in 1..Len(x) |-> Abs(x[i])])

\* gyroLoop without the energy test: every window long enough is pushed.
RECURSIVE gyroLoop_noEnergy(_, _, _, _, _, _)
gyroLoop_noEnergy(gSig, fs, i, lastSign, start, gyroReps) ==
    IF i >= Len(gSig) THEN gyroReps
    ELSE LET sign    == signOf(gSig[i + 1])
             crossed == sign # 0 /\ lastSign # 0 /\ sign # lastSign
             pushed  == IF crossed /\ start # << >>
                           /\ i - start[1] >= GYRO_MIN_REP(fs)
                        THEN Append(gyroReps, <<start[1], i>>)
                        ELSE gyroReps
             start2  == IF crossed THEN (IF start = << >> THEN <<i>> ELSE << >>)
                        ELSE start
         IN  gyroLoop_noEnergy(gSig, fs, i + 1, IF sign # 0 THEN sign ELSE lastSign,
                               start2, pushed)

\* The gyro loop from index i (0-based) on.  start is << >> for null and
\* <<j>> for the index j.
RECURSIVE gyroLoop(_, _, _, _, _, _)
gyroLoop(gSig, fs, i, lastSign, start, gyroReps) ==
    IF i >= Len(gSig) THEN gyroReps
    ELSE LET sign    == signOf(gSig[i + 1])
             crossed == sign # 0 /\ lastSign # 0 /\ sign # lastSign
             E       == Div(AbsSum(slice(gSig, start[1], i)), fs)
             pushed  == IF crossed /\ start # << >>
                           /\ i - start[1] >= GYRO_MIN_REP(fs)
                           /\ E > GYRO_MIN_ENERGY
                        THEN Append(gyroReps, <<start[1], i>>)
                        ELSE gyroReps
             start2  == IF crossed THEN (IF start = << >> THEN <<i>> ELSE << >>)
                        ELSE start
         IN  gyroLoop(gSig, fs, i + 1, IF sign # 0 THEN sign ELSE lastSign,
                      start2, pushed)

\* The accelerometer loop from index i (0-based) on.
RECURSIVE accelLoop(_, _, _, _, _, _)
accelLoop(aSig, fs, i, above, start, accelReps) ==
    IF i >= Len(aSig) THEN accelReps
    ELSE LET v == aSig[i + 1]
         IN  IF v # NaN /\ v > ACC_MIN_MAG /\ ~above
             THEN accelLoop(aSig, fs, i + 1, TRUE, i, accelReps)
             ELSE IF v # NaN /\ v < ACC_MIN_MAG /\ above
             THEN accelLoop(aSig, fs, i + 1, FALSE, start,
                            IF i - start >= ACC_MIN_REP(fs)
                            THEN Append(accelReps, <<start, i>>) ELSE accelReps)
             ELSE accelLoop(aSig, fs, i + 1, above, start, accelReps)

\* Math.sqrt(ax[i]**2 + ay[i]**2 + az[i]**2)
accMagOf(d) ==
    IF d.ax = NaN \/ d.ay = NaN \/ d.az = NaN THEN NaN ELSE Hypot(d.ax, d.ay, d.az)

\* The square of the distance d between sd and ref; NaN when an sd is NaN.
\* d itself is compared through its square, Math.sqrt being increasing.
distSquared(sd, ref) ==
    IF \E c \in 1..6 : sd[Channels[c]] = NaN THEN NaN
    ELSE SumSeq([c \in 1..6 |->
            (sd[Channels[c]] - ref[Channels[c]]) * (sd[Channels[c]] - ref[Channels[c]])])

\* best before any reference is tried: dist is Infinity.
NoBest == [label |-> "UNKNOWN", inf |-> TRUE, dist2 |-> 0]

\* The for loop over REFERENCE_SD from its k-th key on.
RECURSIVE nearest(_, _, _)
nearest(sd, k, best) ==
    IF k > Len(ReferenceLabels) THEN best
    ELSE LET d2 == distSquared(sd, REFERENCE_SD[ReferenceLabels[k]])
         IN  nearest(sd, k + 1,
                     IF d2 # NaN /\ (best.inf \/ d2 < best.dist2)
                     THEN [label |-> ReferenceLabels[k], inf |-> FALSE, dist2 |-> d2]
                     ELSE best)

\* rawLabelOf without the cutoff: the nearest label at any distance.
rawLabelOf_noCutoff(best) == best.label

\* best.dist > MAX_CLASS_DIST ? "UNKNOWN" : best.label
rawLabelOf(best) ==
    IF best.inf \/ best.dist2 > MAX_CLASS_DIST * MAX_CLASS_DIST
    THEN "UNKNOWN" ELSE best.label

\* selectReps taking the gyro windows only when they are strictly more.
selectReps_strictlyMore(gyroReps, accelReps) ==
    IF Len(gyroReps) > Len(accelReps) /\ Len(gyroReps) >= 3
    THEN [reps |-> gyroReps, source |-> "GYRO"]
    ELSE [reps |-> accelReps, source |-> "ACCEL"]

\* sensor selection
selectReps(gyroReps, accelReps) ==
    IF Len(gyroReps) >= Len(accelReps) /\ Len(gyroReps) >= 3
    THEN [reps |-> gyroReps, source |-> "GYRO"]
    ELSE [reps |-> accelReps, source |-> "ACCEL"]

\* classifyWindow that takes every recognised exercise for a good rep.
classifyWindow_anyKnown(imuBuffer, fs, lastRep, source) ==
    LET seg  == slice(imuBuffer, lastRep[1], lastRep[2])
        sd   == [c \in {"ax", "ay", "az", "gx", "gy", "gz"} |-> std(Channel(seg, c))]
        best == nearest(sd, 1, NoBest)
        rawLabel   == rawLabelOf(best)
        finalLabel == IF rawLabel # "UNKNOWN" THEN "GOOD_BICEP" ELSE "BAD_CURL"
    IN  [sd |-> sd, best |-> best,
         ret |-> [source     |-> source,
                  repWindow  |-> <<Div(lastRep[1] * Scale, fs), Div(lastRep[2] * Scale, fs)>>,
                  rawLabel   |-> rawLabel,
                  finalLabel |-> finalLabel,
                  counts     |-> [GOOD_BICEP |-> IF finalLabel = "GOOD_BICEP" THEN 1 ELSE 0,
                                  BAD_CURL   |-> IF finalLabel = "BAD_CURL" THEN 1 ELSE 0]]]

\* Classification of the window lastRep = [s, e] and the returned object.
classifyWindow(imuBuffer, fs, lastRep, source) ==
    LET seg  == slice(imuBuffer, lastRep[1], lastRep[2])
        sd   == [c \in {"ax", "ay", "az", "gx", "gy", "gz"} |-> std(Channel(seg, c))]
        best == nearest(sd, 1, NoBest)
        rawLabel   == rawLabelOf(best)
        finalLabel == IF rawLabel = "BICEP" THEN "GOOD_BICEP" ELSE "BAD_CURL"
    IN  [sd |-> sd, best |-> best,
         ret |-> [source     |-> source,
                  repWindow  |-> <<Div(lastRep[1] * Scale, fs), Div(lastRep[2] * Scale, fs)>>,
                  rawLabel   |-> rawLabel,
                  finalLabel |-> finalLabel,
                  counts     |-> [GOOD_BICEP |-> IF finalLabel = "GOOD_BICEP" THEN 1 ELSE 0,
                                  BAD_CURL   |-> IF finalLabel = "BAD_CURL" THEN 1 ELSE 0]]]

\* tooShort without the comparison: no buffer is rejected.
tooShort_never(imuBuffer, fs) == FALSE

\* imuBuffer.length < fs
tooShort(imuBuffer, fs) == Len(imuBuffer) < fs

\* What processIMURealtime computes: outcome is "null", "throws" or
\* "object", ret the returned object; the windows found, the selection,
\* the deviations and the nearest reference are kept for the properties.
NoWork == [gyroReps |-> << >>, accelReps |-> << >>, source |-> "", segmented |-> FALSE]

processIMURealtime(imuBuffer, fs) ==
    IF tooShort(imuBuffer, fs)
    THEN [outcome |-> "null", work |-> NoWork]
    ELSE LET gyroVars == <<std(Channel(imuBuffer, "gx")), std(Channel(imuBuffer, "gy")),
                           std(Channel(imuBuffer, "gz"))>>
             gAxis    == gyroAxisIndex(gyroVars)
         IN  IF gAxis = -1
             THEN [outcome |-> "throws", work |-> NoWork]
             ELSE LET gSig      == smooth(Channel(imuBuffer, Channels[4 + gAxis]), fs)
                      gyroReps  == gyroLoop(gSig, fs, 0, 0, << >>, << >>)
                      accMag    == [i \in 1..Len(imuBuffer) |-> accMagOf(imuBuffer[i])]
                      aSig      == smooth(accMag, fs)
                      accelReps == accelLoop(aSig, fs, 0, FALSE, 0, << >>)
                      sel       == selectReps(gyroReps, accelReps)
                      work      == [gyroReps |-> gyroReps, accelReps |-> accelReps,
                                    source |-> sel.source, segmented |-> TRUE]
                  IN  IF sel.reps = << >>
                      THEN [outcome |-> "null", work |-> work]
                      ELSE LET c == classifyWindow(imuBuffer, fs,
                                                   sel.reps[Len(sel.reps)], sel.source)
                           IN  [outcome |-> "object", work |-> work, sd |-> c.sd,
                                best |-> c.best, ret |-> c.ret]

(***************************************************************************)
(* Bounds and inputs of the state machine.                                 *)
(***************************************************************************)
\* Calls (update, setExercise, reset) made on one detector in a short
\* session; a long session makes two more.
MaxCalls == 5

\* Calls of setExercise, and of reset, in one session.
MaxSets == 1
MaxResets == 1

\* Date.now() when the detector is constructed.
T0 == 100000

Upright == <<0, 0, 9810>>

\* The inputs of update: gyro, acc and the milliseconds passed since the
\* previous call.  A fast swing about y (Big), a slower one about y and z
\* (Slow), one about x and z with the sensor held sideways (Side), and a
\* small one equally about x and y (Even).
Big  == [gyro |-> <<0, 20000, 0>>,     acc |-> Upright,         dt |-> 0]
Slow == [gyro |-> <<0, 3000, 4000>>,   acc |-> Upright,         dt |-> 1000]
Side == [gyro |-> <<-4000, 0, 4000>>,  acc |-> <<9810, 0, 0>>,  dt |-> 1000]
Even == [gyro |-> <<212, 212, 0>>,     acc |-> Upright,         dt |-> 0]

\* The inputs of the auto-detect update carry the ground truth of a CSV row
\* as well ("" when there is none).  Late is Big after a pause, Rest the
\* sensor at rest.
AutoInputs ==
    { [gyro |-> Big.gyro,   acc |-> Upright,  dt |-> 0,    truth |-> ""],
      [gyro |-> Slow.gyro,  acc |-> Upright,  dt |-> 1000, truth |-> "NORMAL_CURL"],
      [gyro |-> Side.gyro,  acc |-> Side.acc, dt |-> 1000, truth |-> ""],
      [gyro |-> Big.gyro,   acc |-> Upright,  dt |-> 3500, truth |-> ""],
      [gyro |-> <<0, 0, 0>>, acc |-> Upright, dt |-> 0,    truth |-> "GOBLET_SQUAT"] }

Sessions == {"short", "long"}

Inputs(s) == IF s = "short" THEN {Big, Slow, Side, Even} ELSE {Big, Slow}

CallsIn(s) == IF s = "short" THEN MaxCalls ELSE MaxCalls + 2

NoOut ==
    [value |-> 0, repDetected |-> FALSE, isGoodForm |-> FALSE, exercise |-> NoExercise,
     exerciseStats |-> ZeroStats, state |-> "IDLE", energy |-> 0,
     timestamp |-> 0, peak |-> NoPeak]

NoSample == [gyro |-> <<0, 0, 0>>, acc |-> <<0, 0, 0>>, dt |-> 0]

NoAutoOut ==
    [value |-> 0, repDetected |-> FALSE, repType |-> NoExercise, exercise |-> NoExercise,
     repCounts |-> ZeroCounts, missedReps |-> 0, state |-> "IDLE", energy |-> 0,
     timestamp |-> 0, peak |-> NoPeak,
     mid |-> [state |-> "IDLE", energy |-> 0, lastRepTime |-> 0, missedReps |-> 0]]

NoRepTimes == [e \in Exercises |-> -1]

(***************************************************************************)
(* State.                                                                  *)
(*   variant  which program runs: "selected" or "auto"                     *)
(*   session  which inputs this run draws from                             *)
(*   det      the selected-exercise detector                               *)
(*   adet     the auto-detect detector, aout the result of its last update *)
(*   now      Date.now()                                                   *)
(*   out      the result of the last update                                *)
(*   calls    calls made: <<all, setExercise, reset>>                      *)
(*   sampleNo numbers the samples                                          *)
(* History, not program state:                                             *)
(*   lastOp   the last call; inp its sample (update only)                  *)
(*   pre      the running program's detector before the last call          *)
(*   lastRep, prevRep  per exercise, the timestamps of the last and the    *)
(*            one-before-last confirmed rep since the last reset (-1: none)*)
(*   repPeaks the ids of the samples whose peak confirmed a rep            *)
(*   fresh    a detector constructed when reset() was last called and fed  *)
(*            the same updates since                                       *)
(*   changedAt  the timestamps of the updates that changed the auto-detect *)
(*            detector's currentExercise, since construction or reset      *)
(* classifyExercise run on its own:                                        *)
(*   cl       the features of a first sample and, once done, the result    *)
(* processIMURealtime:                                                     *)
(*   rt       the buffer and fs it is called with and, once done, what it  *)
(*            computed and returned                                        *)
(* The peak detector run on its own:                                       *)
(*   pk       pd its state, peak the result of its last detect; history:   *)
(*            values pushed since construction or reset, and reports, the  *)
(*            peaks returned since: [id, at], sample id returned by call at*)
(* CSV replay:                                                             *)
(*   csv      the CSV processor, csvMode, processingCSV and the pending    *)
(*            timers; history: the file parsed last and the rows fed since *)
(* Results kept by the caller:                                             *)
(*   held     the stats objects the detector has created, and the results  *)
(*            of update the caller still holds                             *)
(***************************************************************************)
VARIABLES variant, session, det, adet, now, out, aout, calls, sampleNo, lastOp,
          inp, pre, lastRep, prevRep, repPeaks, fresh, pk, changedAt, cl, rt, ble, csv, held

vars == <<variant, session, det, adet, now, out, aout, calls, sampleNo, lastOp,
          inp, pre, lastRep, prevRep, repPeaks, fresh, pk, changedAt, cl, rt, ble, csv, held>>

\* The state of the programs run on their own, which the exercise detectors
\* leave alone.
harness == <<pk, cl, rt, ble, csv, held>>

\* No peak detector is run on its own.
NoPk == [pd |-> createPeakDetector, peak |-> NoPeak, values |-> << >>,
         reports |-> << >>]

\* classifyExercise is not run on its own.
NoCl == [done |-> FALSE]

\* processIMURealtime is not run.
NoRt == [done |-> FALSE]

\* No Bluetooth device is connected.
NoBle == [connected |-> FALSE]

\* No CSV file is replayed.
NoCsv == [processingCSV |-> FALSE]

\* No result of update is kept by the caller.
NoHeld == [kept |-> << >>]

NoFresh == [on |-> FALSE]

InitSelected ==
    /\ variant = "selected"
    /\ session \in Sessions
    /\ \E e \in Exercises : det = createExerciseDetector(e)
    /\ adet = createAutoDetector(T0)
    /\ aout = NoAutoOut
    /\ now = T0
    /\ out = NoOut
    /\ calls = <<0, 0, 0>>
    /\ sampleNo = 0
    /\ lastOp = "create"
    /\ ble = NoBle
    /\ csv = NoCsv
    /\ held = NoHeld
    /\ inp = NoSample
    /\ pre = det
    /\ lastRep = NoRepTimes
    /\ prevRep = NoRepTimes
    /\ repPeaks = << >>
    /\ fresh = NoFresh
    /\ pk = NoPk
    /\ changedAt = << >>
    /\ cl = NoCl
    /\ rt = NoRt

\* detector.update(gyro, acc), dt milliseconds after the previous call.
Update ==
    /\ variant = "selected"
    /\ calls[1] < CallsIn(session)
    /\ \E i \in Inputs(session) :
         \E r \in {update(det, i.gyro, i.acc, now + i.dt, sampleNo + 1)} :
         LET e == det.currentExercise
         IN  /\ now' = now + i.dt
             /\ det' = r.det
             /\ out' = r.out
             /\ inp' = i
             /\ lastRep' = IF r.out.repDetected
                           THEN [lastRep EXCEPT ![e] = now + i.dt] ELSE lastRep
             /\ prevRep' = IF r.out.repDetected
                           THEN [prevRep EXCEPT ![e] = lastRep[e]] ELSE prevRep
             /\ repPeaks' = IF r.out.repDetected
                            THEN Append(repPeaks, r.out.peak.id) ELSE repPeaks
             /\ fresh' = IF fresh.on
                         THEN The({ [on |-> TRUE, det |-> f.det, out |-> f.out]
                                    : f \in {update(fresh.det, i.gyro, i.acc,
                                                    now + i.dt, sampleNo + 1)} })
                         ELSE fresh
    /\ calls' = [calls EXCEPT ![1] = @ + 1]
    /\ sampleNo' = sampleNo + 1
    /\ lastOp' = "update"
    /\ pre' = det
    /\ UNCHANGED <<changedAt, variant, session, adet, aout>>
    /\ UNCHANGED harness

\* detector.setExercise(exercise)
SetExercise ==
    /\ variant = "selected"
    /\ calls[1] < CallsIn(session)
    /\ calls[2] < MaxSets
    /\ \E e \in Exercises : det' = setExercise(det, e)
    /\ calls' = [calls EXCEPT ![1] = @ + 1, ![2] = @ + 1]
    /\ lastOp' = "setExercise"
    /\ pre' = det
    /\ fresh' = NoFresh
    /\ UNCHANGED <<changedAt, variant, session, adet, aout, now, out, sampleNo, inp, lastRep, prevRep, repPeaks>>
    /\ UNCHANGED harness

\* detector.reset()
Reset ==
    /\ variant = "selected"
    /\ calls[1] < CallsIn(session)
    /\ calls[3] < MaxResets
    /\ det' = reset(det)
    /\ calls' = [calls EXCEPT ![1] = @ + 1, ![3] = @ + 1]
    /\ lastOp' = "reset"
    /\ pre' = det
    /\ lastRep' = NoRepTimes
    /\ prevRep' = NoRepTimes
    /\ fresh' = [on |-> TRUE, det |-> createExerciseDetector(det.currentExercise),
                 out |-> NoOut]
    /\ UNCHANGED <<changedAt, variant, session, adet, aout, now, out, sampleNo, inp, repPeaks>>
    /\ UNCHANGED harness

NextSelected == Update \/ SetExercise \/ Reset

InitAuto ==
    /\ variant = "auto"
    /\ session = "short"
    /\ det = createExerciseDetector(NoExercise)
    /\ adet = createAutoDetector(T0)
    /\ aout = NoAutoOut
    /\ now = T0
    /\ out = NoOut
    /\ calls = <<0, 0, 0>>
    /\ sampleNo = 0
    /\ lastOp = "create"
    /\ ble = NoBle
    /\ csv = NoCsv
    /\ held = NoHeld
    /\ inp = NoSample
    /\ pre = adet
    /\ lastRep = NoRepTimes
    /\ prevRep = NoRepTimes
    /\ repPeaks = << >>
    /\ fresh = NoFresh
    /\ pk = NoPk
    /\ changedAt = << >>
    /\ cl = NoCl
    /\ rt = NoRt

\* The auto-detect detector.update(gyro, acc, groundTruthExercise).
UpdateAuto ==
    /\ variant = "auto"
    /\ calls[1] < MaxCalls
    /\ \E i \in AutoInputs :
         \E r \in {updateAuto(adet, i.gyro, i.acc, i.truth, now + i.dt, sampleNo + 1)} :
             /\ now' = now + i.dt
             /\ adet' = r.det
             /\ aout' = r.out
             /\ inp' = [gyro |-> i.gyro, acc |-> i.acc, dt |-> i.dt]
             /\ repPeaks' = IF r.out.repDetected
                            THEN Append(repPeaks, r.out.peak.id) ELSE repPeaks
             /\ changedAt' = IF r.det.currentExercise # adet.currentExercise
                             THEN Append(changedAt, now + i.dt) ELSE changedAt
    /\ calls' = [calls EXCEPT ![1] = @ + 1]
    /\ sampleNo' = sampleNo + 1
    /\ lastOp' = "update"
    /\ pre' = adet
    /\ UNCHANGED <<variant, session, det, out, lastRep, prevRep, fresh>>
    /\ UNCHANGED harness

\* The auto-detect detector.reset().
ResetAuto ==
    /\ variant = "auto"
    /\ calls[1] < MaxCalls
    /\ calls[3] < MaxResets
    /\ adet' = resetAuto(adet, now)
    /\ calls' = [calls EXCEPT ![1] = @ + 1, ![3] = @ + 1]
    /\ lastOp' = "reset"
    /\ changedAt' = << >>
    /\ pre' = adet
    /\ UNCHANGED <<variant, session, det, now, out, aout, sampleNo, inp,
                   lastRep, prevRep, repPeaks, fresh>>
    /\ UNCHANGED harness

NextAuto == UpdateAuto \/ ResetAuto

SpecAuto == InitAuto /\ [][NextAuto]_vars

\* Either program.
SpecBoth == (InitSelected \/ InitAuto) /\ [][NextSelected \/ NextAuto]_vars

Init == InitSelected

Next == NextSelected

Spec == Init /\ [][Next]_vars

(***************************************************************************)
(* The peak detector on its own: detect and reset called on one            *)
(* createPeakDetector(), on every sequence of values.                      *)
(***************************************************************************)
\* Calls of detect made on the peak detector.
MaxPushes == 7

\* The values pushed are 1..MaxPeakValue.
MaxPeakValue == 3

PeakValues == 1..MaxPeakValue

\* Milliseconds between two samples at FS samples a second.
SamplePeriod == 1000 \div FS

\* Date.now() of the sample numbered id.
SampleTime(id) == T0 + id * SamplePeriod

\* peakDetector.reset()
peakDetectorReset(pd) == [window |-> << >>, peaks |-> << >>]

InitPeak ==
    /\ variant = "peak"
    /\ session = "short"
    /\ det = createExerciseDetector(NoExercise)
    /\ adet = createAutoDetector(T0)
    /\ aout = NoAutoOut
    /\ now = T0
    /\ out = NoOut
    /\ calls = <<0, 0, 0>>
    /\ sampleNo = 0
    /\ lastOp = "create"
    /\ ble = NoBle
    /\ csv = NoCsv
    /\ held = NoHeld
    /\ inp = NoSample
    /\ pre = createPeakDetector
    /\ lastRep = NoRepTimes
    /\ prevRep = NoRepTimes
    /\ repPeaks = << >>
    /\ fresh = NoFresh
    /\ pk = NoPk
    /\ changedAt = << >>
    /\ cl = NoCl
    /\ rt = NoRt

\* peakDetector.detect(value, timestamp)
Detect ==
    /\ variant = "peak"
    /\ calls[1] < MaxPushes
    /\ \E v \in PeakValues :
         \E r \in {detect(pk.pd, v, SampleTime(sampleNo + 1), sampleNo + 1)} :
             pk' = [pd      |-> r.pd,
                    peak    |-> r.peak,
                    values  |-> Append(pk.values, v),
                    reports |-> IF r.peak.some
                                THEN Append(pk.reports,
                                            [id |-> r.peak.id, at |-> sampleNo + 1])
                                ELSE pk.reports]
    /\ calls' = [calls EXCEPT ![1] = @ + 1]
    /\ sampleNo' = sampleNo + 1
    /\ now' = SampleTime(sampleNo + 1)
    /\ lastOp' = "detect"
    /\ pre' = pk.pd
    /\ UNCHANGED <<held, csv, ble, cl, rt, changedAt, variant, session, det, adet, out, aout, inp, lastRep, prevRep,
                   repPeaks, fresh>>

\* peakDetector.reset()
PeakReset ==
    /\ variant = "peak"
    /\ calls[1] < MaxPushes
    /\ calls[3] < MaxResets
    /\ pk' = [pd |-> peakDetectorReset(pk.pd), peak |-> NoPeak, values |-> << >>,
              reports |-> << >>]
    /\ calls' = [calls EXCEPT ![1] = @ + 1, ![3] = @ + 1]
    /\ lastOp' = "reset"
    /\ pre' = pk.pd
    /\ UNCHANGED <<held, csv, ble, cl, rt, changedAt, variant, session, det, adet, now, out, aout, sampleNo, inp,
                   lastRep, prevRep, repPeaks, fresh>>

NextPeak == Detect \/ PeakReset

SpecPeak == InitPeak /\ [][NextPeak]_vars

(***************************************************************************)
(* classifyExercise on its own, on the features extractFeatures computes   *)
(* for the first sample of an auto-detect detector.                        *)
(***************************************************************************)
\* Components of the gyro samples classified.
ClassifyGyro == {-2000, -500, 0, 300, 500, 1000, 2000}

\* The accelerometer samples classified: z up, x up, y up, free fall.
ClassifyAcc == {Upright, <<9810, 0, 0>>, <<0, 9810, 0>>, <<0, 0, 0>>}

InitClassify ==
    /\ variant = "classify"
    /\ session = "short"
    /\ det = createExerciseDetector(NoExercise)
    /\ adet = createAutoDetector(T0)
    /\ aout = NoAutoOut
    /\ now = T0
    /\ out = NoOut
    /\ calls = <<0, 0, 0>>
    /\ sampleNo = 0
    /\ lastOp = "create"
    /\ ble = NoBle
    /\ csv = NoCsv
    /\ held = NoHeld
    /\ inp = NoSample
    /\ pre = adet
    /\ lastRep = NoRepTimes
    /\ prevRep = NoRepTimes
    /\ repPeaks = << >>
    /\ fresh = NoFresh
    /\ pk = NoPk
    /\ changedAt = << >>
    /\ rt = NoRt
    /\ \E gx \in ClassifyGyro, gy \in ClassifyGyro, gz \in ClassifyGyro, acc \in ClassifyAcc :
          cl = [done     |-> FALSE,
                features |-> extractFeaturesWith(adet, <<gx, gy, gz>>, acc,
                                                 ACC_ALPHA_AUTO).features]

\* classifyExercise(features)
Classify ==
    /\ variant = "classify"
    /\ ~cl.done
    /\ cl' = [done |-> TRUE, features |-> cl.features,
              result |-> classifyExercise(cl.features)]
    /\ lastOp' = "classifyExercise"
    /\ UNCHANGED <<held, csv, ble, variant, session, det, adet, now, out, aout, calls, sampleNo, inp,
                   pre, lastRep, prevRep, repPeaks, fresh, pk, changedAt, rt>>

SpecClassify == InitClassify /\ [][Classify]_vars

(***************************************************************************)
(* processIMURealtime on a growing buffer.  The buffer repeats one of a    *)
(* few motion patterns, a cycle of samples scaled by an amplitude:         *)
(* <<a, g, d>> is the sample with accelerations a * amplitude, angular     *)
(* rates g * amplitude and d added to gx.                                  *)
(***************************************************************************)
MaxBuf == 13
MaxFs == 6
FsValues == 1..MaxFs
Drive == 5000

Patterns ==
    [still     |-> << <<0, 0, 0>> >>,
     alternate |-> << <<1, 1, 0>>, <<-1, -1, 0>> >>,
     swing     |-> << <<-1, -1, 0>>, <<0, 0, 0>>, <<1, 1, 0>> >>,
     swingRest |-> << <<-1, -1, 0>>, <<0, 0, 0>>, <<0, 1, 0>> >>,
     bursts    |-> << <<1, 0, 0>>, <<-1, 0, 0>>, <<0, 0, 0>>, <<0, 0, 0>> >>,
     driven    |-> << <<0, 0, -2 * Drive>>, <<0, 0, Drive>>, <<1, 1, 0>>, <<-1, -1, 0>> >>,
     accNaN    |-> << <<NaN, -1, 0>>, <<0, 0, 0>>, <<1, 1, 0>> >>,
     gyroNaN   |-> << <<1, 1, 0>>, <<-1, -1, 0>>, <<0, NaN, 0>> >>]

PatternNames == DOMAIN Patterns

Amplitudes ==
    [BICEP  |-> REFERENCE_SD.BICEP,
     HAMMER |-> REFERENCE_SD.HAMMER,
     ARNOLD |-> REFERENCE_SD.ARNOLD,
     EDGE   |-> [REFERENCE_SD.BICEP EXCEPT !.ax = @ + MAX_CLASS_DIST],
     OVER   |-> [REFERENCE_SD.BICEP EXCEPT !.ax = @ + MAX_CLASS_DIST + 10],
     FAR    |-> [ax |-> 20000, ay |-> 20000, az |-> 20000,
                 gx |-> 6000, gy |-> 6000, gz |-> 6000]]

AmplitudeNames == DOMAIN Amplitudes

Times(k, v) == IF k = NaN THEN NaN ELSE k * v

\* The sample {ax, ay, az, gx, gy, gz} a pattern step stands for.
SampleOf(amp, step) ==
    [ax |-> Times(step[1], amp.ax), ay |-> Times(step[1], amp.ay),
     az |-> Times(step[1], amp.az),
     gx |-> IF step[2] = NaN THEN NaN ELSE step[2] * amp.gx + step[3],
     gy |-> Times(step[2], amp.gy), gz |-> Times(step[2], amp.gz)]

NoRes == [outcome |-> "none"]

InitRealtime ==
    /\ variant = "realtime"
    /\ session = "short"
    /\ det = createExerciseDetector(NoExercise)
    /\ adet = createAutoDetector(T0)
    /\ aout = NoAutoOut
    /\ now = T0
    /\ out = NoOut
    /\ calls = <<0, 0, 0>>
    /\ sampleNo = 0
    /\ lastOp = "create"
    /\ ble = NoBle
    /\ csv = NoCsv
    /\ held = NoHeld
    /\ inp = NoSample
    /\ pre = adet
    /\ lastRep = NoRepTimes
    /\ prevRep = NoRepTimes
    /\ repPeaks = << >>
    /\ fresh = NoFresh
    /\ pk = NoPk
    /\ changedAt = << >>
    /\ cl = NoCl
    /\ \E p \in PatternNames, a \in AmplitudeNames, fs \in FsValues :
          rt = [done |-> FALSE, pat |-> p, amp |-> a, fs |-> fs,
                imuBuffer |-> << >>, res |-> NoRes]

\* One more sample arrives in the buffer.
PushSample ==
    /\ variant = "realtime"
    /\ Len(rt.imuBuffer) < MaxBuf
    /\ rt' = [rt EXCEPT
                !.imuBuffer = Append(@, SampleOf(Amplitudes[rt.amp],
                                  Patterns[rt.pat][(Len(rt.imuBuffer) % Len(Patterns[rt.pat])) + 1])),
                !.done = FALSE,
                !.res = NoRes]
    /\ lastOp' = "push"
    /\ UNCHANGED <<held, csv, ble, variant, session, det, adet, now, out, aout, calls, sampleNo, inp,
                   pre, lastRep, prevRep, repPeaks, fresh, pk, changedAt, cl>>

\* processIMURealtime(imuBuffer, fs)
ProcessBuffer ==
    /\ variant = "realtime"
    /\ ~rt.done
    /\ \E r \in {processIMURealtime(rt.imuBuffer, rt.fs)} :
          rt' = [rt EXCEPT !.done = TRUE, !.res = r]
    /\ lastOp' = "processIMURealtime"
    /\ UNCHANGED <<held, csv, ble, variant, session, det, adet, now, out, aout, calls, sampleNo, inp,
                   pre, lastRep, prevRep, repPeaks, fresh, pk, changedAt, cl>>

NextRealtime == PushSample \/ ProcessBuffer

SpecRealtime == InitRealtime /\ [][NextRealtime]_vars

(***************************************************************************)
(* The selected-exercise detector fed samples of which some hold a NaN.    *)
(***************************************************************************)
GyroNaN == [gyro |-> <<NaN, 0, 0>>, acc |-> Upright, dt |-> 0]
AccNaN  == [gyro |-> <<0, 1000, 0>>, acc |-> <<0, NaN, 9810>>, dt |-> 0]

NaNInputs == {Big, Slow, GyroNaN, AccNaN}

InitNaN ==
    /\ variant = "nan"
    /\ session = "short"
    /\ \E e \in Exercises : det = createExerciseDetector(e)
    /\ adet = createAutoDetector(T0)
    /\ aout = NoAutoOut
    /\ now = T0
    /\ out = NoOut
    /\ calls = <<0, 0, 0>>
    /\ sampleNo = 0
    /\ lastOp = "create"
    /\ ble = NoBle
    /\ csv = NoCsv
    /\ held = NoHeld
    /\ inp = NoSample
    /\ pre = det
    /\ lastRep = NoRepTimes
    /\ prevRep = NoRepTimes
    /\ repPeaks = << >>
    /\ fresh = NoFresh
    /\ pk = NoPk
    /\ changedAt = << >>
    /\ cl = NoCl
    /\ rt = NoRt

\* detector.update(gyro, acc) with a sample that may hold a NaN.
UpdateNaN ==
    /\ variant = "nan"
    /\ calls[1] < MaxCalls
    /\ \E i \in NaNInputs :
         \E r \in {updateNaN(det, i.gyro, i.acc, now + i.dt, sampleNo + 1)} :
             /\ now' = now + i.dt
             /\ det' = r.det
             /\ out' = r.out
             /\ inp' = i
    /\ calls' = [calls EXCEPT ![1] = @ + 1]
    /\ sampleNo' = sampleNo + 1
    /\ lastOp' = "update"
    /\ pre' = det
    /\ UNCHANGED <<variant, session, adet, aout, lastRep, prevRep, repPeaks, fresh,
                   changedAt>>
    /\ UNCHANGED harness

SpecNaN == InitNaN /\ [][UpdateNaN]_vars

(***************************************************************************)
(* The selected-exercise detector given exercise keys of which some are    *)
(* not keys of EXERCISE_THRESHOLDS.                                        *)
(***************************************************************************)
UnknownKeys == {"PUSH_UP"}

InitAnyKey ==
    /\ variant = "anykey"
    /\ session = "short"
    /\ \E e \in Exercises \cup UnknownKeys : det = createExerciseDetector(e)
    /\ adet = createAutoDetector(T0)
    /\ aout = NoAutoOut
    /\ now = T0
    /\ out = NoOut
    /\ calls = <<0, 0, 0>>
    /\ sampleNo = 0
    /\ lastOp = "create"
    /\ ble = NoBle
    /\ csv = NoCsv
    /\ held = NoHeld
    /\ inp = NoSample
    /\ pre = det
    /\ lastRep = NoRepTimes
    /\ prevRep = NoRepTimes
    /\ repPeaks = << >>
    /\ fresh = NoFresh
    /\ pk = NoPk
    /\ changedAt = << >>
    /\ cl = NoCl
    /\ rt = NoRt

\* detector.update(gyro, acc): it returns, or throws and returns nothing.
UpdateAnyKey ==
    /\ variant = "anykey"
    /\ calls[1] < MaxCalls
    /\ \E i \in Inputs("short") :
         \E u \in {updateAnyKey(det, i.gyro, i.acc, now + i.dt, sampleNo + 1)} :
             /\ now' = now + i.dt
             /\ det' = u.r.det
             /\ out' = IF u.threw THEN out ELSE u.r.out
             /\ lastOp' = IF u.threw THEN "update throws" ELSE "update"
             /\ inp' = i
    /\ calls' = [calls EXCEPT ![1] = @ + 1]
    /\ sampleNo' = sampleNo + 1
    /\ pre' = det
    /\ UNCHANGED <<variant, session, adet, aout, lastRep, prevRep, repPeaks, fresh,
                   changedAt>>
    /\ UNCHANGED harness

\* detector.setExercise(exercise) with any string.
SetAnyKey ==
    /\ variant = "anykey"
    /\ calls[1] < MaxCalls
    /\ calls[2] < MaxSets
    /\ \E e \in Exercises \cup UnknownKeys : det' = setExercise(det, e)
    /\ calls' = [calls EXCEPT ![1] = @ + 1, ![2] = @ + 1]
    /\ lastOp' = "setExercise"
    /\ pre' = det
    /\ UNCHANGED <<variant, session, adet, aout, now, out, sampleNo, inp, lastRep,
                   prevRep, repPeaks, fresh, changedAt>>
    /\ UNCHANGED harness

NextAnyKey == UpdateAnyKey \/ SetAnyKey

SpecAnyKey == InitAnyKey /\ [][NextAnyKey]_vars

(***************************************************************************)
(* Scenarios: one detector fed a fixed signal, one sample every 100 ms.    *)
(* A scenario is [program, exercise, wave, amp, period, offset, acc]: the  *)
(* gyro magnitude follows the wave (0 for "still", 0 and amp in turn for   *)
(* "square", a ramp from 0 up to amp and back for "tri") with the given    *)
(* period and offset in samples, about the y axis; acc is constant.        *)
(***************************************************************************)
MaxSamples == 100

\* Milliseconds between two samples.
ScenarioDt == 1000 \div FS_AUTO

StillScenarios ==
    { [program |-> "selected", exercise |-> e, wave |-> "still", amp |-> 0,
       period |-> 1, offset |-> 0, acc |-> Upright] : e \in Exercises \cup {NoExercise} }
    \cup
    { [program |-> "auto", exercise |-> NoExercise, wave |-> "still", amp |-> 0,
       period |-> 1, offset |-> 0, acc |-> Upright] }

\* An acceleration along z too small for the squat rule (accMag > 8.0).
Light == <<0, 0, 5000>>

\* 0 -> 3.0 -> 0 once a second.
AlternatingScenarios ==
    { [program |-> "auto", exercise |-> NoExercise, wave |-> w, amp |-> 3000,
       period |-> FS_AUTO, offset |-> o, acc |-> a]
      : w \in {"square", "tri"}, o \in 0..(FS_AUTO - 1), a \in {Upright, Light} }

\* (1 - cos(2 pi k / 20)) / 2 in thousandths, k = 0..19: one period of a
\* sinusoid between 0 and 1.
Sinusoid ==
    <<0, 24, 95, 206, 345, 500, 655, 794, 905, 976,
      1000, 976, 905, 794, 655, 500, 345, 206, 95, 24>>

\* One peak per period: ramps with periods of 2, 2.5 and 3 seconds, and a
\* sinusoid with a period of 2 seconds.
PeriodicScenarios ==
    { [program |-> "selected", exercise |-> "NORMAL_CURL", wave |-> "tri", amp |-> a,
       period |-> p, offset |-> o, acc |-> Upright]
      : a \in {2200, 3000, 5000}, p \in {20, 25, 30}, o \in {0, 5} }
    \cup
    { [program |-> "selected", exercise |-> "NORMAL_CURL", wave |-> "sine", amp |-> a,
       period |-> Len(Sinusoid), offset |-> o, acc |-> Upright]
      : a \in {2200, 3000, 5000}, o \in {0, 5} }

\* A peak every 0.6 s: more peaks and samples than the buffers hold.
FastScenarios ==
    { [program |-> "selected", exercise |-> e, wave |-> "tri", amp |-> 3000,
       period |-> 6, offset |-> 0, acc |-> Upright] : e \in {"NORMAL_CURL", "GOBLET_SQUAT"} }

Scenarios ==
    StillScenarios \cup AlternatingScenarios \cup PeriodicScenarios \cup FastScenarios

\* The gyro magnitude of the k-th sample (k = 1, 2, ...) of scenario sc.
Wave(sc, k) ==
    LET ph == (k - 1 + sc.offset) % sc.period
    IN  IF sc.wave = "still" THEN 0
        ELSE IF sc.wave = "square" THEN (IF 2 * ph >= sc.period THEN sc.amp ELSE 0)
        ELSE IF sc.wave = "sine" THEN Div(sc.amp * Sinusoid[ph + 1], Scale)
        ELSE Div(sc.amp * (sc.period - Abs(2 * ph - sc.period)), sc.period)

InitScenario ==
    /\ variant = "scenario"
    /\ session \in Scenarios
    /\ det = createExerciseDetector(session.exercise)
    /\ adet = createAutoDetector(T0)
    /\ aout = NoAutoOut
    /\ now = T0
    /\ out = NoOut
    /\ calls = <<0, 0, 0>>
    /\ sampleNo = 0
    /\ lastOp = "create"
    /\ ble = NoBle
    /\ csv = NoCsv
    /\ held = NoHeld
    /\ inp = NoSample
    /\ pre = IF session.program = "auto" THEN adet ELSE det
    /\ lastRep = NoRepTimes
    /\ prevRep = NoRepTimes
    /\ repPeaks = << >>
    /\ fresh = NoFresh
    /\ pk = NoPk
    /\ changedAt = << >>
    /\ cl = NoCl
    /\ rt = NoRt

\* detector.update(gyro, acc) of the first program with the next sample.
FeedSelected ==
    /\ variant = "scenario"
    /\ session.program = "selected"
    /\ sampleNo < MaxSamples
    /\ \E i \in {[gyro |-> <<0, Wave(session, sampleNo + 1), 0>>, acc |-> session.acc,
                   dt |-> ScenarioDt]} :
         \E r \in {update(det, i.gyro, i.acc, now + i.dt, sampleNo + 1)} :
             /\ now' = now + i.dt
             /\ det' = r.det
             /\ out' = r.out
             /\ inp' = i
             /\ repPeaks' = IF r.out.repDetected
                            THEN Append(repPeaks, r.out.peak.id) ELSE repPeaks
    /\ sampleNo' = sampleNo + 1
    /\ lastOp' = "update"
    /\ pre' = det
    /\ UNCHANGED <<variant, session, adet, aout, calls, lastRep, prevRep, fresh, changedAt>>
    /\ UNCHANGED harness

\* detector.update(gyro, acc) of the second program with the next sample.
FeedAuto ==
    /\ variant = "scenario"
    /\ session.program = "auto"
    /\ sampleNo < MaxSamples
    /\ \E i \in {[gyro |-> <<0, Wave(session, sampleNo + 1), 0>>, acc |-> session.acc,
                   dt |-> ScenarioDt]} :
         \E r \in {updateAuto(adet, i.gyro, i.acc, NoExercise, now + i.dt, sampleNo + 1)} :
             /\ now' = now + i.dt
             /\ adet' = r.det
             /\ aout' = r.out
             /\ inp' = i
             /\ repPeaks' = IF r.out.repDetected
                            THEN Append(repPeaks, r.out.peak.id) ELSE repPeaks
    /\ sampleNo' = sampleNo + 1
    /\ lastOp' = "update"
    /\ pre' = adet
    /\ UNCHANGED <<variant, session, det, out, calls, lastRep, prevRep, fresh, changedAt>>
    /\ UNCHANGED harness

NextScenario == FeedSelected \/ FeedAuto

SpecScenario == InitScenario /\ [][NextScenario]_vars

(***************************************************************************)
(* Frames: a fresh detector of the first program fed accelerations that    *)
(* turn its gravity estimate towards each axis; session records the unit   *)
(* gravity vector g and the frame extractFeatures built from it.           *)
(***************************************************************************)
MaxFrameCalls == 2

\* Accelerations of 1 g along the axes and their sums, and two 3 degrees
\* and 30 degrees off the x-z plane.
FrameAccs ==
    { <<x, y, z>> : x \in {-9810, 0, 9810}, y \in {-9810, 0, 9810}, z \in {-9810, 0, 9810} }
    \cup { <<9810, 500, -9810>>, <<9810, 5000, -9810>> }

\* A sensor that does not turn, and one turning about y.
FrameGyros == { <<0, 0, 0>>, <<0, 1000, 0>> }

NoFrame == [g |-> <<0, 0, 0>>, u |-> <<0, 0, 0>>, v |-> <<0, 0, 0>>, w |-> <<0, 0, 0>>]

InitFrame ==
    /\ variant = "frame"
    /\ session = NoFrame
    /\ det = createExerciseDetector("NORMAL_CURL")
    /\ adet = createAutoDetector(T0)
    /\ aout = NoAutoOut
    /\ now = T0
    /\ out = NoOut
    /\ calls = <<0, 0, 0>>
    /\ sampleNo = 0
    /\ lastOp = "create"
    /\ ble = NoBle
    /\ csv = NoCsv
    /\ held = NoHeld
    /\ inp = NoSample
    /\ pre = det
    /\ lastRep = NoRepTimes
    /\ prevRep = NoRepTimes
    /\ repPeaks = << >>
    /\ fresh = NoFresh
    /\ pk = NoPk
    /\ changedAt = << >>
    /\ cl = NoCl
    /\ rt = NoRt

\* detector.update(gyro, acc): the frame of this call is kept in session.
FrameUpdate ==
    /\ variant = "frame"
    /\ sampleNo < MaxFrameCalls
    /\ \E a \in FrameAccs :
         \E i \in {[gyro |-> gy, acc |-> a, dt |-> 1000 \div FS] : gy \in FrameGyros} :
         \E r \in {update(det, i.gyro, i.acc, now + i.dt, sampleNo + 1)} :
         \E f \in {gravityFrame(normalize(r.det.gVec))} :
             /\ now' = now + i.dt
             /\ det' = r.det
             /\ out' = r.out
             /\ inp' = i
             /\ session' = [g |-> f.w, u |-> f.u, v |-> f.v, w |-> f.w]
    /\ sampleNo' = sampleNo + 1
    /\ lastOp' = "update"
    /\ pre' = det
    /\ UNCHANGED <<variant, adet, aout, calls, lastRep, prevRep, repPeaks, fresh, changedAt>>
    /\ UNCHANGED harness

SpecFrame == InitFrame /\ [][FrameUpdate]_vars

(***************************************************************************)
(* BLE FUNCTIONS: subscribeCharacteristic, handleDisconnect and the        *)
(* notifications of a connected device.  ble holds charRef and             *)
(* notificationHandlerRef (0 for null), for each characteristic the        *)
(* handlers registered for "characteristicvaluechanged" and whether it is  *)
(* notifying, and the calls of subscribeCharacteristic made so far, each   *)
(* with the await it is at.  A handler is named by the number of the call  *)
(* that created it.  det is detectorRef.current.                           *)
(***************************************************************************)
MaxChars == 2
MaxSubscribes == 3
MaxNotifications == 2

Chars == 1..MaxChars

\* The state after connectBLE and selectService: connected, the notify
\* characteristics listed, nothing subscribed.
InitBle ==
    /\ variant = "ble"
    /\ session = "short"
    /\ det = createExerciseDetector("NORMAL_CURL")
    /\ adet = createAutoDetector(T0)
    /\ aout = NoAutoOut
    /\ now = T0
    /\ out = NoOut
    /\ calls = <<0, 0, 0>>
    /\ sampleNo = 0
    /\ lastOp = "connectBLE"
    /\ inp = NoSample
    /\ pre = det
    /\ lastRep = NoRepTimes
    /\ prevRep = NoRepTimes
    /\ repPeaks = << >>
    /\ fresh = NoFresh
    /\ pk = NoPk
    /\ changedAt = << >>
    /\ cl = NoCl
    /\ rt = NoRt
    /\ ble = [connected  |-> TRUE,
              charRef    |-> 0,
              handlerRef |-> 0,
              listeners  |-> [c \in Chars |-> {}],
              notifying  |-> [c \in Chars |-> FALSE],
              calls      |-> << >>]
    /\ csv = NoCsv
    /\ held = NoHeld

bleFrame == <<variant, session, det, adet, now, out, aout, calls, sampleNo, inp, pre,
              lastRep, prevRep, repPeaks, fresh, pk, changedAt, cl, rt, csv, held>>

\* subscribeCharacteristic(characteristic) up to its first await: the
\* stopNotifications of the current characteristic when there is one with
\* a handler, else charRef.current = characteristic and startNotifications.
Subscribe ==
    /\ variant = "ble"
    /\ ble.connected
    /\ Len(ble.calls) < MaxSubscribes
    /\ \E c \in Chars :
          ble' = IF ble.charRef # 0 /\ ble.handlerRef # 0
                 THEN [ble EXCEPT !.calls = Append(@, [pc |-> "stopNotifications", ch |-> c,
                                                       on |-> ble.charRef])]
                 ELSE [ble EXCEPT !.charRef = c,
                                  !.calls = Append(@, [pc |-> "startNotifications", ch |-> c,
                                                       on |-> c])]
    /\ lastOp' = "subscribeCharacteristic"
    /\ UNCHANGED bleFrame

\* stopNotifications resolves: the handler in notificationHandlerRef is
\* removed from the characteristic charRef holds now (a TypeError when it
\* holds null, caught at the end), charRef.current = characteristic, and
\* startNotifications is awaited.
StopResolved ==
    /\ variant = "ble"
    /\ ble.connected
    /\ \E i \in 1..Len(ble.calls) :
          /\ ble.calls[i].pc = "stopNotifications"
          /\ ble' = IF ble.charRef = 0
                    THEN [ble EXCEPT !.notifying[ble.calls[i].on] = FALSE,
                                     !.calls[i].pc = "failed"]
                    ELSE [ble EXCEPT !.notifying[ble.calls[i].on] = FALSE,
                                     !.listeners[ble.charRef] = @ \ {ble.handlerRef},
                                     !.charRef = ble.calls[i].ch,
                                     !.calls[i].pc = "startNotifications",
                                     !.calls[i].on = ble.calls[i].ch]
    /\ lastOp' = "stopNotifications resolved"
    /\ UNCHANGED bleFrame

\* startNotifications resolves: handleNotify is created, stored in
\* notificationHandlerRef and registered on the characteristic.
StartResolved ==
    /\ variant = "ble"
    /\ ble.connected
    /\ \E i \in 1..Len(ble.calls) :
          /\ ble.calls[i].pc = "startNotifications"
          /\ ble' = [ble EXCEPT !.notifying[ble.calls[i].ch] = TRUE,
                                !.handlerRef = i,
                                !.listeners[ble.calls[i].ch] = @ \cup {i},
                                !.calls[i].pc = "done"]
    /\ lastOp' = "startNotifications resolved"
    /\ UNCHANGED bleFrame

\* The awaited promise rejects (the device is gone, or the GATT operation
\* failed): the catch block sets charRef.current = null.
AwaitRejected ==
    /\ variant = "ble"
    /\ \E i \in 1..Len(ble.calls) :
          /\ ble.calls[i].pc \in {"stopNotifications", "startNotifications"}
          /\ ble' = [ble EXCEPT !.charRef = 0, !.calls[i].pc = "failed"]
    /\ lastOp' = "rejected"
    /\ UNCHANGED bleFrame

\* "gattserverdisconnected": handleDisconnect.
Disconnect ==
    /\ variant = "ble"
    /\ ble.connected
    /\ ble' = IF ble.charRef # 0
              THEN [ble EXCEPT !.connected = FALSE,
                               !.notifying = [c \in Chars |-> FALSE],
                               !.listeners[ble.charRef] = @ \ {ble.handlerRef},
                               !.charRef = 0]
              ELSE [ble EXCEPT !.connected = FALSE,
                               !.notifying = [c \in Chars |-> FALSE]]
    /\ lastOp' = "handleDisconnect"
    /\ UNCHANGED bleFrame

\* detectorRef.current.update called once by each of n handlers.
RECURSIVE feedHandlers(_, _, _, _, _)
feedHandlers(r, n, i, timestamp, id) ==
    IF n = 0 THEN r
    ELSE feedHandlers(update(r.det, i.gyro, i.acc, timestamp, id), n - 1, i, timestamp, id)

\* A notification of a notifying characteristic: every handler registered
\* on it parses the sample and calls detectorRef.current.update.
Notify ==
    /\ variant = "ble"
    /\ ble.connected
    /\ sampleNo < MaxNotifications
    /\ \E c \in Chars :
          /\ ble.notifying[c]
          /\ ble.listeners[c] # {}
          /\ \E i \in {[gyro |-> <<0, 3000, 4000>>, acc |-> Upright, dt |-> 1000 \div FS]} :
             \E r \in {feedHandlers([det |-> det, out |-> out], Cardinality(ble.listeners[c]),
                                     i, now + i.dt, sampleNo + 1)} :
                 /\ det' = r.det
                 /\ out' = r.out
                 /\ inp' = i
                 /\ now' = now + i.dt
    /\ sampleNo' = sampleNo + 1
    /\ pre' = det
    /\ lastOp' = "handleNotify"
    /\ UNCHANGED <<variant, session, adet, aout, calls, lastRep, prevRep, repPeaks, fresh,
                   pk, changedAt, cl, rt, ble, csv, held>>

NextBle == Subscribe \/ StopResolved \/ StartResolved \/ AwaitRejected \/ Disconnect \/ Notify

SpecBle == InitBle /\ [][NextBle]_vars

(***************************************************************************)
(* Z-AXIS LOCKED DETECTOR (src/src/App.jsx).  A detector is a record of    *)
(* the closure's variables; its FS is 50 as in part_000.                   *)
(***************************************************************************)
LOOKBACK_SAMPLES == 50
LP_ALPHA_Z == 500
REP_PEAK_THRESH == 2500
MIN_REP_MS == 900
MIN_REP_ENERGY == 2000

createZAxisDetector ==
    [state |-> "READY", zLp |-> 0, xLp |-> 0, yLp |-> 0, lastRepTime |-> 0,
     goodReps |-> 0, badReps |-> 0, missedReps |-> 0, totalEnergy |-> 0,
     lookbackZ |-> << >>, lookbackX |-> << >>, lookbackY |-> << >>]

\* signals[n - 2] > signals[n - 3] && signals[n - 2] > signals[n - 1]
detectAnyPeak(signals) ==
    /\ Len(signals) >= 3
    /\ signals[Len(signals) - 1] > signals[Len(signals) - 2]
    /\ signals[Len(signals) - 1] > signals[Len(signals)]

\* LP_ALPHA * x + (1 - LP_ALPHA) * lp
lowPassZ(x, lp) == Div(LP_ALPHA_Z * x + (Scale - LP_ALPHA_Z) * lp, Scale)

\* lookback.push(x), then shift() when more than LOOKBACK_SAMPLES are held.
pushLookback(lookback, x) ==
    LET b == Append(lookback, x) IN IF Len(b) > LOOKBACK_SAMPLES THEN Tail(b) ELSE b

calculateAxisEnergy(d, gyro) ==
    The({ [d EXCEPT !.xLp = lp[1], !.yLp = lp[2], !.zLp = lp[3],
                    !.lookbackX = pushLookback(@, lp[1]),
                    !.lookbackY = pushLookback(@, lp[2]),
                    !.lookbackZ = pushLookback(@, lp[3]),
                    !.totalEnergy = Div(lp[1] + lp[2] + lp[3], FS)]
          : lp \in { << lowPassZ(Abs(gyro[1]), d.xLp),
                        lowPassZ(Abs(gyro[2]), d.yLp),
                        lowPassZ(Abs(gyro[3]), d.zLp) >> } })

NoRepZ(d) == [det |-> d, detected |-> FALSE, type |-> "", axis |-> ""]

\* detectRepOnAxis without the MIN_REP_MS test.
detectRepOnAxis_noRefractory(d, axisLookback, axisName, timestamp) ==
    IF /\ detectAnyPeak(axisLookback)
       /\ axisLookback[Len(axisLookback) - 1] > REP_PEAK_THRESH
    THEN IF axisName = "z"
         THEN [det |-> [d EXCEPT !.lastRepTime = timestamp, !.goodReps = @ + 1],
               detected |-> TRUE, type |-> "GOOD", axis |-> "Z"]
         ELSE [det |-> [d EXCEPT !.lastRepTime = timestamp, !.badReps = @ + 1],
               detected |-> TRUE, type |-> "BAD",
               axis |-> IF axisName = "x" THEN "X" ELSE "Y"]
    ELSE NoRepZ(d)

detectRepOnAxis(d, axisLookback, axisName, timestamp) ==
    IF /\ detectAnyPeak(axisLookback)
       /\ axisLookback[Len(axisLookback) - 1] > REP_PEAK_THRESH
       /\ timestamp - d.lastRepTime > MIN_REP_MS
    THEN IF axisName = "z"
         THEN [det |-> [d EXCEPT !.lastRepTime = timestamp, !.goodReps = @ + 1],
               detected |-> TRUE, type |-> "GOOD", axis |-> "Z"]
         ELSE [det |-> [d EXCEPT !.lastRepTime = timestamp, !.badReps = @ + 1],
               detected |-> TRUE, type |-> "BAD",
               axis |-> IF axisName = "x" THEN "X" ELSE "Y"]
    ELSE NoRepZ(d)

\* checkAxes that checks X before Z.
checkAxes_xFirst(d, timestamp) ==
    The({ IF x.detected THEN x
          ELSE The({ IF z.detected THEN z
                     ELSE detectRepOnAxis(d, d.lookbackY, "y", timestamp)
                     : z \in {detectRepOnAxis(d, d.lookbackZ, "z", timestamp)} })
          : x \in {detectRepOnAxis(d, d.lookbackX, "x", timestamp)} })

\* "Check Z-axis first (good reps)", else X, else Y.
checkAxes(d, timestamp) ==
    The({ IF z.detected THEN z
          ELSE The({ IF x.detected THEN x
                     ELSE detectRepOnAxis(d, d.lookbackY, "y", timestamp)
                     : x \in {detectRepOnAxis(d, d.lookbackX, "x", timestamp)} })
          : z \in {detectRepOnAxis(d, d.lookbackZ, "z", timestamp)} })

\* missedRepZ without the 2000 ms since lastRepTime.
missedRepZ_noGap(r, timestamp) ==
    IF /\ ~r.detected
       /\ Len(r.det.lookbackZ) = LOOKBACK_SAMPLES
       /\ SumSeq(r.det.lookbackZ) > MIN_REP_ENERGY * FS
    THEN [det |-> [r.det EXCEPT !.missedReps = @ + 1, !.lastRepTime = timestamp],
          detected |-> TRUE, type |-> "MISSED", axis |-> ""]
    ELSE r

\* "Missed rep detection based on total energy": energy is the sum of the
\* Z lookback divided by FS.
missedRepZ(r, timestamp) ==
    IF /\ ~r.detected
       /\ Len(r.det.lookbackZ) = LOOKBACK_SAMPLES
       /\ SumSeq(r.det.lookbackZ) > MIN_REP_ENERGY * FS
       /\ timestamp - r.det.lastRepTime > 2000
    THEN [det |-> [r.det EXCEPT !.missedReps = @ + 1, !.lastRepTime = timestamp],
          detected |-> TRUE, type |-> "MISSED", axis |-> ""]
    ELSE r

\* createZAxisDetector.update(gyro) at Date.now() = timestamp.
updateZ(d, gyro, timestamp) ==
    The({ [det |-> r.det,
           out |-> [goodReps |-> r.det.goodReps, badReps |-> r.det.badReps,
                    missedReps |-> r.det.missedReps, repDetected |-> r.detected,
                    repType |-> r.type, repAxis |-> r.axis,
                    signal |-> r.det.zLp, timestamp |-> timestamp]]
          : r \in {missedRepZ(checkAxes(calculateAxisEnergy(d, gyro), timestamp),
                              timestamp)} })

\* createZAxisDetector.reset()
resetZ(d) == createZAxisDetector

(***************************************************************************)
(* The Z-axis detector on its own.  A session first feeds a fixed cycle of *)
(* gyro samples (none, one rep, or a steady turn that fills the lookback), *)
(* then any of a few samples at two sampling intervals, and resets.        *)
(* calls[1] counts the free updates, calls[3] the resets; repPeaks lists   *)
(* the events [t, type] reported since the last reset.                     *)
(***************************************************************************)
MaxZFree == 4
MaxZResets == 1

ZSessions ==
    { [name |-> "fresh",    cycle |-> << <<0, 0, 0>> >>,                       warm |-> 0,  dt |-> 100],
      [name |-> "one rep",  cycle |-> << <<0, 0, 0>>, <<0, 0, 6000>> >>,       warm |-> 3,  dt |-> 1000],
      [name |-> "steady",   cycle |-> << <<0, 0, 2400>> >>,                    warm |-> 47, dt |-> 100],
      [name |-> "missed",   cycle |-> << <<0, 0, 2400>> >>,                    warm |-> 50, dt |-> 1000] }

ZGyro ==
    { <<0, 0, 0>>, <<0, 0, 6000>>, <<6000, 0, 6000>>, <<6000, 6000, 0>>, <<0, 6000, 0>> }

ZIntervals == {100, 1000}

NoZOut ==
    [goodReps |-> 0, badReps |-> 0, missedReps |-> 0, repDetected |-> FALSE,
     repType |-> "", repAxis |-> "", signal |-> 0, timestamp |-> 0]

InitZ ==
    /\ variant = "zaxis"
    /\ session \in ZSessions
    /\ det = createZAxisDetector
    /\ adet = createAutoDetector(T0)
    /\ aout = NoAutoOut
    /\ now = T0
    /\ out = NoZOut
    /\ calls = <<0, 0, 0>>
    /\ sampleNo = 0
    /\ lastOp = "create"
    /\ ble = NoBle
    /\ csv = NoCsv
    /\ held = NoHeld
    /\ inp = NoSample
    /\ pre = det
    /\ lastRep = NoRepTimes
    /\ prevRep = NoRepTimes
    /\ repPeaks = << >>
    /\ fresh = NoFresh
    /\ pk = NoPk
    /\ changedAt = << >>
    /\ cl = NoCl
    /\ rt = NoRt

\* detector.update(gyro), dt after the previous call.
ZFeed(gyro, dt) ==
    \E r \in {updateZ(det, gyro, now + dt)} :
        /\ det' = r.det
        /\ out' = r.out
        /\ now' = now + dt
        /\ inp' = [gyro |-> gyro, acc |-> <<0, 0, 0>>, dt |-> dt]
        /\ repPeaks' = IF r.out.repDetected
                       THEN Append(repPeaks, [t |-> now + dt, type |-> r.out.repType])
                       ELSE repPeaks
        /\ sampleNo' = sampleNo + 1
        /\ pre' = det
        /\ lastOp' = "update"

\* The next sample of the session's cycle.
ZWarm ==
    /\ variant = "zaxis"
    /\ sampleNo < session.warm
    /\ calls = <<0, 0, 0>>
    /\ ZFeed(session.cycle[(sampleNo % Len(session.cycle)) + 1], session.dt)
    /\ UNCHANGED <<variant, session, adet, aout, calls, lastRep, prevRep, fresh, changedAt>>
    /\ UNCHANGED harness

\* Any sample, after the cycle.
ZUpdate ==
    /\ variant = "zaxis"
    /\ sampleNo >= session.warm \/ calls[3] > 0
    /\ calls[1] < MaxZFree
    /\ \E gyro \in ZGyro, dt \in ZIntervals : ZFeed(gyro, dt)
    /\ calls' = [calls EXCEPT ![1] = @ + 1]
    /\ UNCHANGED <<variant, session, adet, aout, lastRep, prevRep, fresh, changedAt>>
    /\ UNCHANGED harness

\* detector.reset()
ZReset ==
    /\ variant = "zaxis"
    /\ sampleNo >= session.warm
    /\ calls[3] < MaxZResets
    /\ calls[1] < MaxZFree
    /\ det' = resetZ(det)
    /\ pre' = det
    /\ repPeaks' = << >>
    /\ calls' = [calls EXCEPT ![1] = @ + 1, ![3] = @ + 1]
    /\ lastOp' = "reset"
    /\ UNCHANGED <<variant, session, adet, aout, now, out, sampleNo, inp, lastRep, prevRep,
                   fresh, changedAt>>
    /\ UNCHANGED harness

NextZ == ZWarm \/ ZUpdate \/ ZReset

SpecZ == InitZ /\ [][NextZ]_vars

(***************************************************************************)
(* CSV replay of the first program.  A file is its header line and its     *)
(* data lines; a line is the sequence of its comma-separated fields, << >> *)
(* for a line that is blank after trim(); a field is << >> when it is      *)
(* empty and <<v>> when it holds the number v.  Only the six sensor        *)
(* columns are modelled.  A state update is followed at once by the render *)
(* and the effects it causes.                                              *)
(***************************************************************************)
\* setTimeout(processNextCSVSample, 100)
TIMER_MS == 100

\* createCSVProcessor(): csvData = [], currentIndex = 0, detector = null.
createCSVProcessor == [csvData |-> << >>, currentIndex |-> 0, detector |-> << >>]

\* The value parseCSV stores under the header h for the line values:
\* values[index] ? parseFloat(values[index].trim()) : 0
fieldOf(headers, values, h) ==
    LET index == CHOOSE i \in 1..Len(headers) : headers[i] = h
    IN  IF index <= Len(values) /\ values[index] # << >> THEN values[index][1] ELSE 0

\* lines.slice(1).filter((line) => line.trim()).map(...) from the n-th data
\* line on.  line is the number of the line in the file, which the code
\* does not store.
RECURSIVE parseLines(_, _, _)
parseLines(headers, lines, n) ==
    IF n > Len(lines) THEN << >>
    ELSE IF lines[n] = << >> THEN parseLines(headers, lines, n + 1)
    ELSE << [line |-> n,
             ax |-> fieldOf(headers, lines[n], "ax"),
             ay |-> fieldOf(headers, lines[n], "ay"),
             az |-> fieldOf(headers, lines[n], "az"),
             gx |-> fieldOf(headers, lines[n], "gx"),
             gy |-> fieldOf(headers, lines[n], "gy"),
             gz |-> fieldOf(headers, lines[n], "gz")] >>
         \o parseLines(headers, lines, n + 1)

\* parseCSV(csvText, selectedExercise)
parseCSV(p, file, selectedExercise) ==
    [csvData      |-> parseLines(file.headers, file.lines, 1),
     currentIndex |-> 0,
     detector     |-> <<createExerciseDetector(selectedExercise)>>]

\* getNextSample that leaves currentIndex where it is.
getNextSample_noAdvance(p, timestamp) ==
    IF p.currentIndex >= Len(p.csvData)
    THEN [proc |-> p, isNull |-> TRUE]
    ELSE The({ [proc   |-> [p EXCEPT !.detector = <<r.det>>],
                isNull |-> FALSE,
                sample |-> p.csvData[p.currentIndex + 1],
                out    |-> r.out]
               : r \in {update(p.detector[1],
                               <<p.csvData[p.currentIndex + 1].gx,
                                 p.csvData[p.currentIndex + 1].gy,
                                 p.csvData[p.currentIndex + 1].gz>>,
                               <<p.csvData[p.currentIndex + 1].ax,
                                 p.csvData[p.currentIndex + 1].ay,
                                 p.csvData[p.currentIndex + 1].az>>,
                               timestamp, p.csvData[p.currentIndex + 1].line)} })

\* getNextSample() at Date.now() = timestamp: null when every row is
\* consumed, else the row at currentIndex goes through detector.update.
getNextSample(p, timestamp) ==
    IF p.currentIndex >= Len(p.csvData)
    THEN [proc |-> p, isNull |-> TRUE]
    ELSE The({ [proc   |-> [p EXCEPT !.currentIndex = @ + 1, !.detector = <<r.det>>],
                isNull |-> FALSE,
                sample |-> p.csvData[p.currentIndex + 1],
                out    |-> r.out]
               : r \in {update(p.detector[1],
                               <<p.csvData[p.currentIndex + 1].gx,
                                 p.csvData[p.currentIndex + 1].gy,
                                 p.csvData[p.currentIndex + 1].gz>>,
                               <<p.csvData[p.currentIndex + 1].ax,
                                 p.csvData[p.currentIndex + 1].ay,
                                 p.csvData[p.currentIndex + 1].az>>,
                               timestamp, p.csvData[p.currentIndex + 1].line)} })

\* The CSV processor's reset()
resetCSV(p) ==
    [csvData      |-> << >>,
     currentIndex |-> 0,
     detector     |-> IF p.detector = << >> THEN << >> ELSE <<reset(p.detector[1])>>]

\* processNextCSVSample as created by a render in which processingCSV had
\* the given value, called at timestamp by the chain of the given number.
\* fed and result record what getNextSample did.
processNextCSVSample(c, processingCSV, timestamp, chain) ==
    IF ~processingCSV THEN c
    ELSE The({ IF r.isNull
               THEN [c EXCEPT !.proc = r.proc, !.processingCSV = FALSE, !.result = "null"]
               ELSE [c EXCEPT !.proc = r.proc, !.result = "sample",
                              !.fed = Append(@, r.sample),
                              !.timers = Append(@, [due           |-> timestamp + TIMER_MS,
                                                    chain         |-> chain,
                                                    processingCSV |-> processingCSV])]
               : r \in {getNextSample(c.proc, timestamp)} })

\* "Start CSV processing when mode is enabled": the effect runs after a
\* render that changed csvMode or processingCSV (processNextCSVSample
\* changes with processingCSV), and has no cleanup.
startCSVProcessing(old, new, timestamp) ==
    IF /\ <<new.csvMode, new.processingCSV>> # <<old.csvMode, old.processingCSV>>
       /\ new.csvMode
       /\ new.processingCSV
    THEN processNextCSVSample([new EXCEPT !.chains = @ + 1], TRUE, timestamp, new.chains + 1)
    ELSE new

\* Files uploaded, and calls of resetCounts, in one session.
MaxUploads == 2
MaxCsvResets == 1

SensorHeaders == <<"ax", "ay", "az", "gx", "gy", "gz">>

\* Three rows, a blank line between them and one at the end; two rows
\* under permuted headers, with an empty field and a short line; a file
\* with its header line only.
CsvFiles ==
    [rows3  |-> [headers |-> SensorHeaders,
                 lines   |-> << << <<0>>, <<0>>, <<9810>>, <<0>>, <<1000>>, <<0>> >>,
                                << >>,
                                << <<0>>, <<0>>, <<9810>>, <<0>>, <<3000>>, <<0>> >>,
                                << <<0>>, <<0>>, <<9810>>, <<0>>, <<1000>>, <<0>> >>,
                                << >> >>],
     rows2  |-> [headers |-> <<"gx", "gy", "gz", "ax", "ay", "az">>,
                 lines   |-> << << << >>, <<2000>>, <<0>>, <<0>>, <<0>>, <<9810>> >>,
                                << <<0>>, <<-2000>>, <<0>>, <<0>> >> >>],
     header |-> [headers |-> SensorHeaders, lines |-> << >>]]

\* Time that passes before an upload or a click on reset.
CsvPauses == {0, 50}

InitCsv ==
    /\ variant = "csv"
    /\ session = "short"
    /\ det = createExerciseDetector(NoExercise)
    /\ adet = createAutoDetector(T0)
    /\ aout = NoAutoOut
    /\ now = T0
    /\ out = NoOut
    /\ calls = <<0, 0, 0>>
    /\ sampleNo = 0
    /\ lastOp = "create"
    /\ ble = NoBle
    /\ inp = NoSample
    /\ pre = adet
    /\ lastRep = NoRepTimes
    /\ prevRep = NoRepTimes
    /\ repPeaks = << >>
    /\ fresh = NoFresh
    /\ pk = NoPk
    /\ changedAt = << >>
    /\ cl = NoCl
    /\ rt = NoRt
    /\ csv = [currentExercise |-> "NORMAL_CURL",
              proc            |-> createCSVProcessor,
              csvMode         |-> FALSE,
              processingCSV   |-> FALSE,
              timers          |-> << >>,
              chains          |-> 0,
              uploads         |-> 0,
              resets          |-> 0,
              file            |-> "",
              fed             |-> << >>,
              wasReset        |-> FALSE,
              result          |-> "none"]
    /\ held = NoHeld

csvFrame == <<variant, session, det, adet, now, out, aout, calls, sampleNo, inp, pre,
              lastRep, prevRep, repPeaks, fresh, pk, changedAt, cl, rt, ble, held>>

\* A click or a file load comes d ms from now, before the next timer is due.
Before(d) == IF csv.timers = << >> THEN TRUE ELSE now + d <= Head(csv.timers).due

\* handleCSVUpload: reader.onload parses the file and sets csvMode and
\* processingCSV.
Upload ==
    /\ variant = "csv"
    /\ csv.uploads < MaxUploads
    /\ \E f \in DOMAIN CsvFiles, d \in CsvPauses :
          /\ Before(d)
          /\ csv' = startCSVProcessing(csv,
                        [csv EXCEPT !.proc = parseCSV(@, CsvFiles[f], csv.currentExercise),
                                    !.csvMode = TRUE,
                                    !.processingCSV = TRUE,
                                    !.uploads = @ + 1,
                                    !.file = f,
                                    !.fed = << >>,
                                    !.wasReset = FALSE,
                                    !.result = "none"],
                        now + d)
          /\ now' = now + d
    /\ lastOp' = "handleCSVUpload"
    /\ UNCHANGED <<variant, session, det, adet, out, aout, calls, sampleNo, inp, pre,
                   lastRep, prevRep, repPeaks, fresh, pk, changedAt, cl, rt, ble, held>>

\* resetCounts: csvProcessorRef.current.reset(), setCsvMode(false),
\* setProcessingCSV(false).  No timer is cleared.
ResetCounts ==
    /\ variant = "csv"
    /\ csv.resets < MaxCsvResets
    /\ \E d \in CsvPauses :
          /\ Before(d)
          /\ csv' = startCSVProcessing(csv,
                        [csv EXCEPT !.proc = resetCSV(@),
                                    !.csvMode = FALSE,
                                    !.processingCSV = FALSE,
                                    !.resets = @ + 1,
                                    !.wasReset = TRUE,
                                    !.result = "none"],
                        now + d)
          /\ now' = now + d
    /\ lastOp' = "resetCounts"
    /\ UNCHANGED <<variant, session, det, adet, out, aout, calls, sampleNo, inp, pre,
                   lastRep, prevRep, repPeaks, fresh, pk, changedAt, cl, rt, ble, held>>

\* The timer set first fires: the processNextCSVSample it was given runs.
\* sampleNo counts the callbacks run.
TimerFires ==
    /\ variant = "csv"
    /\ csv.timers # << >>
    /\ \E t \in {Head(csv.timers)} :
          /\ csv' = startCSVProcessing(csv,
                        processNextCSVSample([csv EXCEPT !.timers = Tail(@)],
                                             t.processingCSV, t.due, t.chain),
                        t.due)
          /\ now' = t.due
    /\ sampleNo' = sampleNo + 1
    /\ lastOp' = "processNextCSVSample"
    /\ UNCHANGED <<variant, session, det, adet, out, aout, calls, inp, pre,
                   lastRep, prevRep, repPeaks, fresh, pk, changedAt, cl, rt, ble, held>>

NextCsv == Upload \/ ResetCounts \/ TimerFires

SpecCsv == InitCsv /\ [][NextCsv]_vars

\* A timer callback runs: sampleNo counts the callbacks run, and no other
\* action changes it.
TimerRuns == variant = "csv" /\ csv.timers # << >> /\ sampleNo' = sampleNo + 1

\* A timer that is set fires: the browser runs the callback of every
\* pending timer, so TimerFires, the only step that TimerRuns allows under
\* NextCsv, is taken when it stays enabled.
SpecCsvFair == InitCsv /\ [][NextCsv]_vars /\ WF_sampleNo(TimerRuns)

(***************************************************************************)
(* Results of update that the caller keeps.  update returns                *)
(* exerciseStats: { ...exerciseStats }, a new object whose five properties *)
(* are the detector's own { good, bad, total } objects; detectRep          *)
(* increments the fields of those objects in place, and reset() makes five *)
(* new ones.  held.objects[g] holds the five objects of the g-th creation  *)
(* (1: by createExerciseDetector, then one per reset) with their current   *)
(* fields; a kept result names the creation whose objects it refers to and *)
(* records the fields as they were when it was returned.                   *)
(***************************************************************************)
MaxKept == 1
MaxSnapshotResets == 1

\* The scenarios of the first program in which reps are counted.
SnapshotScenarios == { sc \in PeriodicScenarios \cup FastScenarios : sc.amp = 3000 }

InitSnapshot ==
    /\ variant = "snapshot"
    /\ session \in SnapshotScenarios
    /\ det = createExerciseDetector(session.exercise)
    /\ adet = createAutoDetector(T0)
    /\ aout = NoAutoOut
    /\ now = T0
    /\ out = NoOut
    /\ calls = <<0, 0, 0>>
    /\ sampleNo = 0
    /\ lastOp = "create"
    /\ ble = NoBle
    /\ csv = NoCsv
    /\ inp = NoSample
    /\ pre = det
    /\ lastRep = NoRepTimes
    /\ prevRep = NoRepTimes
    /\ repPeaks = << >>
    /\ fresh = NoFresh
    /\ pk = NoPk
    /\ changedAt = << >>
    /\ cl = NoCl
    /\ rt = NoRt
    /\ held = [objects |-> <<det.exerciseStats>>, kept |-> << >>]

\* What the caller reads now in the exerciseStats of a kept result.
ReadStats(k) == held.objects[k.objects]

\* detector.update(gyro, acc) with the next sample of the scenario; the
\* caller keeps the result or drops it.
SnapshotUpdate ==
    /\ variant = "snapshot"
    /\ sampleNo < MaxSamples
    /\ \E i \in {[gyro |-> <<0, Wave(session, sampleNo + 1), 0>>, acc |-> session.acc,
                   dt |-> ScenarioDt]} :
         \E r \in {update(det, i.gyro, i.acc, now + i.dt, sampleNo + 1)} :
             /\ now' = now + i.dt
             /\ det' = r.det
             /\ out' = r.out
             /\ inp' = i
             /\ \E keep \in {FALSE, r.out.repDetected /\ Len(held.kept) < MaxKept} :
                   held' = [objects |-> [held.objects EXCEPT ![Len(held.objects)] =
                                             r.det.exerciseStats],
                            kept    |-> IF keep
                                        THEN Append(held.kept,
                                                    [objects    |-> Len(held.objects),
                                                     asReturned |-> r.out.exerciseStats,
                                                     sample     |-> sampleNo + 1])
                                        ELSE held.kept]
    /\ sampleNo' = sampleNo + 1
    /\ lastOp' = "update"
    /\ pre' = det
    /\ UNCHANGED <<variant, session, adet, aout, calls, lastRep, prevRep, repPeaks, fresh,
                   changedAt, pk, cl, rt, ble, csv>>

\* detector.reset(): exerciseStats is assigned five new objects.
SnapshotReset ==
    /\ variant = "snapshot"
    /\ calls[3] < MaxSnapshotResets
    /\ held.kept # << >>
    /\ det' = reset(det)
    /\ held' = [held EXCEPT !.objects = Append(@, reset(det).exerciseStats)]
    /\ calls' = [calls EXCEPT ![3] = @ + 1]
    /\ lastOp' = "reset"
    /\ pre' = det
    /\ UNCHANGED <<variant, session, adet, aout, now, out, sampleNo, inp, lastRep, prevRep,
                   repPeaks, fresh, changedAt, pk, cl, rt, ble, csv>>

NextSnapshot == SnapshotUpdate \/ SnapshotReset

SpecSnapshot == InitSnapshot /\ [][NextSnapshot]_vars

(***************************************************************************)
(* Properties.                                                             *)
(***************************************************************************)
\* The selected-exercise update has just returned.
UpdateReturned == variant = "selected" /\ lastOp = "update"

\* The auto-detect update has just returned.
AutoUpdateReturned == variant = "auto" /\ lastOp = "update"

\* The exercise and thresholds the last selected-exercise update ran with.
LastExercise == pre.currentExercise

LastTh == EXERCISE_THRESHOLDS[pre.currentExercise]

\* The movement state the threshold step of the last update left, written
\* out from the two thresholds.
StateAfterThreshold ==
    IF out.features.gyroMag > LastTh.MIN_GYRO THEN "MOVING"
    ELSE IF out.features.gyroMag * 10 < LastTh.MIN_GYRO * 3 THEN "IDLE"
    ELSE pre.state

\* gyroMag of the last sample lies in [0.3 * MIN_GYRO, MIN_GYRO].
InBand ==
    /\ out.features.gyroMag <= LastTh.MIN_GYRO
    /\ out.features.gyroMag * 10 >= LastTh.MIN_GYRO * 3

\* All conditions of a confirmed rep, for the last update.
RepConditions ==
    /\ out.peak.some
    /\ StateAfterThreshold = "MOVING"
    /\ out.peak.value > LastTh.MIN_REP_GYRO
    /\ out.timestamp - pre.lastRepTime > LastTh.MIN_REP_MS
    /\ isValidRep(LastExercise, out.features, 0, LastTh)

NoDuplicates(s) == \A i, j \in 1..Len(s) : i # j => s[i] # s[j]

\* C1: after any sequence of update, setExercise and reset calls,
\* good + bad = total for every exercise of exerciseStats.
C1_GoodPlusBadIsTotal ==
    \A e \in Exercises :
        det.exerciseStats[e].good + det.exerciseStats[e].bad = det.exerciseStats[e].total

\* A detector that has counted a good and a bad rep.
C1_Witness ==
    /\ \E e \in Exercises : det.exerciseStats[e].good > 0
    /\ \E e \in Exercises : det.exerciseStats[e].bad > 0

\* C2: between two resets, also across exercise changes, two confirmed reps
\* of the same exercise are more than that exercise's MIN_REP_MS apart.
C2_Refractory ==
    \A e \in Exercises :
        prevRep[e] >= 0 => lastRep[e] - prevRep[e] > EXERCISE_THRESHOLDS[e].MIN_REP_MS

\* A second rep of an exercise confirmed on the third sample after
\* setExercise cleared the window: the exercise was set between the two.
C2_Witness ==
    /\ UpdateReturned
    /\ out.repDetected
    /\ prevRep[LastExercise] >= 0
    /\ Len(det.peakDetector.window) = 3

\* C3: when an update confirms a rep, the detector is IDLE with energy 0 as
\* the call returns, in the selected-exercise and in the auto-detect detector.
C3_RepLeavesIdle ==
    /\ UpdateReturned /\ out.repDetected =>
          /\ det.state = "IDLE" /\ det.energy = 0
          /\ out.state = "IDLE" /\ out.energy = 0
    /\ AutoUpdateReturned /\ aout.repDetected =>
          /\ adet.state = "IDLE" /\ adet.energy = 0
          /\ aout.state = "IDLE" /\ aout.energy = 0

\* An auto-detect update confirmed a rep while the detector was moving with
\* energy accumulated.
C3_Witness ==
    /\ AutoUpdateReturned
    /\ aout.repDetected
    /\ pre.state = "MOVING"
    /\ pre.energy > 0

\* C4: reset() followed by updates gives the outputs and the internal state
\* (gVec included) of a freshly constructed detector given the same samples
\* and timestamps.
C4_ResetIsFresh ==
    fresh.on => /\ det = fresh.det
                /\ lastOp = "update" => out = fresh.out

\* C5: an update confirms a rep exactly when the peak detector returned a
\* peak, the state is MOVING after the threshold step, peak.value >
\* MIN_REP_GYRO, timestamp - lastRepTime > MIN_REP_MS and the exercise's
\* validity predicate holds on the sample's features.
C5_RepIffConditions ==
    UpdateReturned => (out.repDetected <=> RepConditions)

\* A rep confirmed after an earlier one, so that lastRepTime mattered.
C5_Witness ==
    /\ UpdateReturned
    /\ out.repDetected
    /\ pre.lastRepTime > 0

\* C6: above MIN_GYRO an IDLE detector becomes MOVING with energy 0; below
\* 0.3 * MIN_GYRO a MOVING detector becomes IDLE; in between the threshold
\* step leaves the state as it was; MOVING is left only by a sample below
\* the low threshold, a confirmed rep, a reset or an exercise change.
C6_Hysteresis ==
    /\ UpdateReturned =>
         /\ pre.state = "IDLE" /\ out.features.gyroMag > LastTh.MIN_GYRO =>
               /\ det.energy = 0
               /\ det.state = "MOVING" \/ out.repDetected
         /\ out.features.gyroMag * 10 < LastTh.MIN_GYRO * 3 => det.state = "IDLE"
         /\ InBand /\ ~out.repDetected => det.state = pre.state
    /\ variant = "selected" /\ pre.state = "MOVING" /\ det.state = "IDLE" =>
         \/ lastOp \in {"reset", "setExercise"}
         \/ out.repDetected
         \/ out.features.gyroMag * 10 < LastTh.MIN_GYRO * 3

\* A moving detector stayed MOVING on a sample between the thresholds.
C6_Witness ==
    /\ UpdateReturned
    /\ InBand
    /\ pre.state = "MOVING"
    /\ det.state = "MOVING"

\* C7: an update confirms at most one rep, and no sample of the filtered
\* signal is the qualifying peak of two confirmed reps.
C7_OnePeakOneRep ==
    /\ NoDuplicates(repPeaks)
    /\ UpdateReturned =>
         \A e \in Exercises :
             det.exerciseStats[e].total - pre.exerciseStats[e].total <= 1

\* C8: in the auto-detect detector, an update at whose end the state is
\* MOVING, more than 3000 ms have passed since the last confirmed rep and
\* energy exceeds half of ENERGY_THRESH adds exactly 1 to missedReps and
\* forces IDLE and energy 0; every other update leaves missedReps unchanged.
C8_MissedRep ==
    AutoUpdateReturned =>
        IF /\ adet.currentExercise # NoExercise
           /\ aout.mid.state = "MOVING"
           /\ aout.timestamp - aout.mid.lastRepTime > 3000
           /\ aout.mid.energy * 2 >
                 EXERCISE_THRESHOLDS_AUTO[adet.currentExercise].ENERGY_THRESH
        THEN /\ adet.missedReps = pre.missedReps + 1
             /\ adet.state = "IDLE"
             /\ adet.energy = 0
        ELSE adet.missedReps = pre.missedReps

\* A missed rep recorded after a confirmed one.
C8_Witness ==
    /\ AutoUpdateReturned
    /\ adet.missedReps = pre.missedReps + 1
    /\ pre.lastRepTime > 0

\* C9: whenever the rep conditions hold, total of the current exercise grows
\* by 1, with good or with bad form; it does not grow otherwise, and the
\* form is good only for a confirmed rep.
C9_FormNeverGates ==
    UpdateReturned =>
        /\ det.exerciseStats[LastExercise].total =
              pre.exerciseStats[LastExercise].total + (IF RepConditions THEN 1 ELSE 0)
        /\ out.isGoodForm => out.repDetected
        /\ out.repDetected => out.isGoodForm = checkGoodForm(out.features, LastExercise)

\* A rep counted with bad form.
C9_Witness ==
    /\ UpdateReturned
    /\ RepConditions
    /\ ~checkGoodForm(out.features, LastExercise)
    /\ det.exerciseStats[LastExercise].total = pre.exerciseStats[LastExercise].total + 1

\* The comparisons of the good-form predicate, every one of them strict.
StrictGoodForm ==
    LET r == out.features.axisRatios
    IN  CASE LastExercise = "NORMAL_CURL" ->
               r.gURatio > LastTh.MIN_U_RATIO /\ r.gVRatio < LastTh.MAX_V_RATIO
          [] LastExercise = "HAMMER_CURL" ->
               r.gVRatio > LastTh.MIN_V_RATIO /\ r.gURatio < LastTh.MAX_U_RATIO
          [] LastExercise = "CROSSBODY_HAMMER" ->
               /\ r.gVRatio > LastTh.MIN_V_RATIO
               /\ Abs(out.features.gV) * 10 > Abs(out.features.gU) * 15
          [] LastExercise = "ARNOLD_PRESS" ->
               /\ r.gWRatio > LastTh.MIN_W_RATIO
               /\ Abs(out.features.gW) > Abs(out.features.gU)
               /\ Abs(out.features.gW) > Abs(out.features.gV)
          [] OTHER -> TRUE

\* Two axes compared by the predicates of the current exercise are equal.
AxisTie ==
    LET r == out.features.axisRatios
    IN  CASE LastExercise \in {"NORMAL_CURL", "HAMMER_CURL"} -> r.gURatio = r.gVRatio
          [] LastExercise = "CROSSBODY_HAMMER" ->
               \/ r.gVRatio * 10 = r.gURatio * 12
               \/ Abs(out.features.gV) * 10 = Abs(out.features.gU) * 15
          [] LastExercise = "ARNOLD_PRESS" ->
               \/ Abs(out.features.gW) = Abs(out.features.gU)
               \/ Abs(out.features.gW) = Abs(out.features.gV)
          [] OTHER -> FALSE

\* C10 as claimed: on a tie between two axes the form is judged bad, and
\* every ratio comparison of the validity and good-form predicates is strict.
C10_AllStrict ==
    UpdateReturned =>
        /\ AxisTie => ~out.isGoodForm
        /\ out.isGoodForm => StrictGoodForm

\* C10 as amended: on a tie between two axes the form is judged bad (for the
\* curls no rep is confirmed at all), the comparisons between two axes being
\* strict; a ratio is compared with its threshold by >= and <=, so that a
\* confirmed curl whose ratios equal their thresholds has good form.
C10_AxisTieIsBad ==
    UpdateReturned =>
        /\ AxisTie => ~out.isGoodForm
        /\ AxisTie /\ LastExercise \in {"NORMAL_CURL", "HAMMER_CURL"} => ~out.repDetected
        /\ out.repDetected /\ LastExercise = "NORMAL_CURL" =>
              out.isGoodForm =
                 (/\ out.features.axisRatios.gURatio >= LastTh.MIN_U_RATIO
                  /\ out.features.axisRatios.gVRatio <= LastTh.MAX_V_RATIO
                  /\ out.features.gyroMag * 10 >= LastTh.MIN_REP_GYRO * 7)
        /\ out.repDetected /\ LastExercise = "HAMMER_CURL" =>
              out.isGoodForm =
                 (/\ out.features.axisRatios.gVRatio >= LastTh.MIN_V_RATIO
                  /\ out.features.axisRatios.gURatio <= LastTh.MAX_U_RATIO
                  /\ out.features.gyroMag * 10 >= LastTh.MIN_REP_GYRO * 7)

\* A curl's peak, passing the gate while moving, on a sample with
\* gURatio = gVRatio: the tie alone decided that no rep was confirmed.
C10_Witness ==
    /\ UpdateReturned
    /\ LastExercise \in {"NORMAL_CURL", "HAMMER_CURL"}
    /\ out.features.axisRatios.gURatio = out.features.axisRatios.gVRatio
    /\ out.features.axisRatios.gURatio > 0
    /\ out.peak.some
    /\ StateAfterThreshold = "MOVING"
    /\ out.peak.value > LastTh.MIN_REP_GYRO
    /\ out.timestamp - pre.lastRepTime > LastTh.MIN_REP_MS
    /\ ~out.repDetected

\* Every count of every exercise is 0.
AllStatsZero == det.exerciseStats = ZeroStats

\* C11 as claimed: after detector.reset() and after detector.setExercise(e)
\* every exercise's good, bad and total are 0.
C11_ZeroAfterResetAndSet ==
    variant = "selected" /\ lastOp \in {"reset", "setExercise"} => AllStatsZero

\* C11 as amended: after detector.reset() every exercise's good, bad and
\* total are 0; detector.setExercise(e) leaves the counts of every exercise
\* as they were.
C11_ZeroAfterResetOnly ==
    /\ variant = "selected" /\ lastOp = "reset" => AllStatsZero
    /\ variant = "selected" /\ lastOp = "setExercise" =>
          det.exerciseStats = pre.exerciseStats

\* reset() called on a detector that had counted a rep.
C11_Witness ==
    /\ variant = "selected"
    /\ lastOp = "reset"
    /\ \E e \in Exercises : pre.exerciseStats[e].total > 0

\* C12: an update that confirms no rep leaves every count unchanged; one
\* that confirms a rep adds 1 to total of the current exercise and to
\* exactly one of its good and bad, and leaves the other exercises' counts
\* unchanged.
C12_StatsFrame ==
    UpdateReturned =>
        LET old == pre.exerciseStats
            new == det.exerciseStats
            e   == LastExercise
        IN  IF out.repDetected
            THEN /\ new[e].total = old[e].total + 1
                 /\ \/ new[e].good = old[e].good + 1 /\ new[e].bad = old[e].bad
                    \/ new[e].good = old[e].good /\ new[e].bad = old[e].bad + 1
                 /\ \A x \in Exercises \ {e} : new[x] = old[x]
            ELSE new = old

\* A rep confirmed while another exercise holds counts of its own.
C12_Witness ==
    /\ UpdateReturned
    /\ out.repDetected
    /\ \E x \in Exercises \ {LastExercise} : pre.exerciseStats[x].total > 0

\* The peak detector's detect has just returned.
DetectReturned == variant = "peak" /\ lastOp = "detect"

\* The values the window holds after the last detect, from the values
\* pushed: the last five, or all of them when fewer were pushed.
HeldValues ==
    LET n == Len(pk.values)
    IN  SubSeq(pk.values, IF n > 5 THEN n - 4 ELSE 1, n)

\* The id of the first sample the window holds.
FirstHeld == sampleNo - Len(HeldValues) + 1

\* C13: detect returns a peak exactly when the window holds at least 3
\* samples and every other element is <= the element at index
\* floor(length / 2); it returns that element's value and timestamp.
C13_DetectIsMiddleMax ==
    DetectReturned =>
        LET w == HeldValues
            m == (Len(w) \div 2) + 1
        IN  /\ pk.peak.some <=>
                  /\ Len(w) >= 3
                  /\ \A i \in 1..Len(w) : i # m => w[i] <= w[m]
            /\ pk.peak.some =>
                  /\ pk.peak.value = w[m]
                  /\ pk.peak.timestamp = SampleTime(FirstHeld + m - 1)

\* A peak returned from a full window whose middle value another sample
\* of the window equals.
C13_Witness ==
    /\ DetectReturned
    /\ pk.peak.some
    /\ Len(pk.values) > 5
    /\ \E i \in 1..5 : i # 3 /\ HeldValues[i] = HeldValues[3]

\* C14: a sample is reported as a peak only once two newer samples have
\* been pushed after it.
C14_TwoNewerSamples ==
    variant = "peak" =>
        \A i \in 1..Len(pk.reports) : pk.reports[i].at >= pk.reports[i].id + 2

\* s rises strictly and then stays flat.
IncreasingThenFlat(s) ==
    \E k \in 1..Len(s) :
        /\ \A i \in 1..(k - 1) : s[i] < s[i + 1]
        /\ \A i \in k..(Len(s) - 1) : s[i] = s[i + 1]

\* C15: for an input that rises strictly and then stays flat, all of it
\* inside one 5-sample window, detect reports at most one peak.
C15_OnePeakOnRamp ==
    variant = "peak" /\ Len(pk.values) <= 5 /\ IncreasingThenFlat(pk.values) =>
        Len(pk.reports) <= 1

\* C16: in the auto-detect detector, more than 5000 ms pass between two
\* consecutive changes of currentExercise with no reset in between.
C16_Cooldown ==
    variant = "auto" =>
        \A i \in 1..(Len(changedAt) - 1) : changedAt[i + 1] - changedAt[i] > 5000

\* The exercise changed a second time.
C16_Witness ==
    /\ AutoUpdateReturned
    /\ Len(changedAt) >= 2
    /\ adet.currentExercise # pre.currentExercise

\* The conditions of the five rules of classifyExercise, in the order squat,
\* Arnold press, crossbody hammer, hammer curl, normal curl.
RuleHolds(f) ==
    LET r == f.axisRatios
    IN  << Abs(f.verticalAcc) > 1500 /\ f.gyroMag < 2000 /\ f.accMag > 8000,
           r.gWRatio > 600 /\ f.gyroMag > 1500 /\ Abs(f.verticalAcc) > 500,
           r.gVRatio > 500 /\ f.gyroMag > 1200 /\ r.gVRatio * 10 > r.gURatio * 12,
           r.gVRatio > 400 /\ r.gVRatio > r.gURatio /\ f.gyroMag > 800,
           r.gURatio > 400 /\ r.gURatio > r.gVRatio /\ f.gyroMag > 800 >>

RuleLabel ==
    << "GOBLET_SQUAT", "ARNOLD_PRESS", "CROSSBODY_HAMMER", "HAMMER_CURL", "NORMAL_CURL" >>

\* The label of the strictly largest ratio, NoExercise on a tie for the
\* largest.
LargestRatio(f) ==
    LET r == f.axisRatios
    IN  IF r.gURatio > r.gVRatio /\ r.gURatio > r.gWRatio THEN "NORMAL_CURL"
        ELSE IF r.gVRatio > r.gURatio /\ r.gVRatio > r.gWRatio THEN "HAMMER_CURL"
        ELSE IF r.gWRatio > r.gURatio /\ r.gWRatio > r.gVRatio THEN "ARNOLD_PRESS"
        ELSE NoExercise

\* C17: classifyExercise returns the label of the first rule whose
\* condition holds; when none of the five holds, the label of the strictly
\* largest ratio, and null when no ratio is strictly the largest.
C17_FirstRuleWins ==
    variant = "classify" /\ cl.done =>
        LET h == RuleHolds(cl.features)
        IN  /\ \A i \in 1..5 :
                  h[i] /\ (\A j \in 1..(i - 1) : ~h[j]) => cl.result = RuleLabel[i]
            /\ (\A i \in 1..5 : ~h[i]) => cl.result = LargestRatio(cl.features)

\* The crossbody rule won over the hammer-curl rule, which held as well.
C17_Witness ==
    /\ variant = "classify"
    /\ cl.done
    /\ RuleHolds(cl.features)[3]
    /\ RuleHolds(cl.features)[4]
    /\ cl.result = "CROSSBODY_HAMMER"

\* processIMURealtime has just returned an object.
Classified == variant = "realtime" /\ rt.done /\ rt.res.outcome = "object"

\* The squares of the distances from sd to the reference vectors that are
\* numbers (a NaN deviation gives no distance).
RefDistances(sd) ==
    { distSquared(sd, REFERENCE_SD[ReferenceLabels[k]]) : k \in 1..Len(ReferenceLabels) }
        \ {NaN}

\* C18: rawLabel is a reference label at minimum Euclidean distance from the
\* six deviations of the segment when that distance is at most
\* MAX_CLASS_DIST, and UNKNOWN when no reference is that near; a segment
\* whose deviations equal a reference vector gets that reference's label.
C18_NearestReference ==
    Classified =>
        LET sd       == rt.res.sd
            rawLabel == rt.res.ret.rawLabel
            near     == { d \in RefDistances(sd) : d <= MAX_CLASS_DIST * MAX_CLASS_DIST }
        IN  /\ near = {} => rawLabel = "UNKNOWN"
            /\ near # {} =>
                  /\ rawLabel \in {"BICEP", "HAMMER", "ARNOLD"}
                  /\ \A d \in RefDistances(sd) :
                        distSquared(sd, REFERENCE_SD[rawLabel]) <= d
            /\ \A k \in 1..Len(ReferenceLabels) :
                  (\A c \in 1..6 : sd[Channels[c]] = REFERENCE_SD[ReferenceLabels[k]][Channels[c]])
                      => rawLabel = ReferenceLabels[k]

\* A segment with exactly the deviations of the ARNOLD reference was
\* labelled ARNOLD.
C18_Witness ==
    /\ Classified
    /\ \A c \in 1..6 : rt.res.sd[Channels[c]] = REFERENCE_SD.ARNOLD[Channels[c]]
    /\ rt.res.ret.rawLabel = "ARNOLD"

\* processIMURealtime has just returned after both segmentations ran.
Segmented == variant = "realtime" /\ rt.done /\ rt.res.work.segmented

\* The window [s, e] in seconds, as repWindow reports it.
InSeconds(rep, fs) == <<Div(rep[1] * Scale, fs), Div(rep[2] * Scale, fs)>>

\* C19: the gyro segmentation is selected exactly when it found at least 3
\* windows and at least as many as the accelerometer segmentation, the
\* accelerometer segmentation otherwise; the returned source names the
\* selected segmentation and repWindow is its last window.
C19_SensorSelection ==
    Segmented =>
        LET g == rt.res.work.gyroReps
            a == rt.res.work.accelReps
        IN  /\ rt.res.work.source = "GYRO" <=> (Len(g) >= 3 /\ Len(g) >= Len(a))
            /\ rt.res.work.source = "ACCEL" <=> ~(Len(g) >= 3 /\ Len(g) >= Len(a))
            /\ rt.res.outcome = "object" =>
                  /\ rt.res.ret.source = rt.res.work.source
                  /\ rt.res.ret.source = "GYRO" =>
                        g # << >> /\ rt.res.ret.repWindow = InSeconds(g[Len(g)], rt.fs)
                  /\ rt.res.ret.source = "ACCEL" =>
                        a # << >> /\ rt.res.ret.repWindow = InSeconds(a[Len(a)], rt.fs)

\* Both segmentations found three windows, with different last windows, and
\* the gyro one was reported.
C19_Witness ==
    /\ Classified
    /\ Len(rt.res.work.gyroReps) = 3
    /\ Len(rt.res.work.accelReps) = 3
    /\ rt.res.work.gyroReps[3] # rt.res.work.accelReps[3]
    /\ rt.res.ret.source = "GYRO"
    /\ rt.res.ret.repWindow = InSeconds(rt.res.work.gyroReps[3], rt.fs)

\* The windows of the segmentation that the call selected.
SelectedReps ==
    IF rt.res.work.source = "GYRO" THEN rt.res.work.gyroReps ELSE rt.res.work.accelReps

\* C20: processIMURealtime returns null, and does not throw, on a buffer of
\* fewer than fs samples and on a buffer in which the selected segmentation
\* found no window.
C20_NullOnShortOrEmpty ==
    variant = "realtime" /\ rt.done =>
        /\ Len(rt.imuBuffer) < rt.fs => rt.res.outcome = "null"
        /\ rt.res.work.segmented /\ SelectedReps = << >> => rt.res.outcome = "null"

\* A buffer shorter than fs whose last sample has NaN angular rates gave
\* null.
C20_Witness ==
    /\ variant = "realtime"
    /\ rt.done
    /\ rt.imuBuffer # << >>
    /\ Len(rt.imuBuffer) < rt.fs
    /\ rt.imuBuffer[Len(rt.imuBuffer)].gz = NaN
    /\ rt.res.outcome = "null"

\* C21: on a buffer of at least fs samples, whatever numbers its channels
\* hold (zeros and NaN included), processIMURealtime returns null or a
\* result object and does not throw.
C21_NeverThrows ==
    variant = "realtime" /\ rt.done /\ Len(rt.imuBuffer) >= rt.fs =>
        rt.res.outcome \in {"null", "object"}

\* A NaN in the detector's filtered gyro value, gravity estimate or energy.
StateHasNaN(d) == d.lpFilter = NaN \/ VecHasNaN(d.gVec) \/ d.energy = NaN

\* C22: after update has processed a sample with a NaN gyro or accel
\* component, the filtered gyro value, the gravity estimate and the energy
\* of the detector hold no NaN.
C22_NoNaNInState ==
    variant = "nan" /\ lastOp = "update" => ~StateHasNaN(det)

\* C23: update on a detector whose current exercise is not a key of
\* EXERCISE_THRESHOLDS ends in an error, not in a result without a rep, and
\* leaves the counts, the state and the energy as they were.
C23_UnknownKeyReported ==
    /\ variant = "anykey"
    /\ lastOp \in {"update", "update throws"}
    /\ pre.currentExercise \in UnknownKeys
    => /\ lastOp = "update throws"
       /\ det.exerciseStats = pre.exerciseStats
       /\ det.state = pre.state
       /\ det.energy = pre.energy

\* The reps confirmed so far by every exercise's count.
TotalReps(counts) ==
    counts["NORMAL_CURL"] + counts["HAMMER_CURL"] + counts["CROSSBODY_HAMMER"]
        + counts["ARNOLD_PRESS"] + counts["GOBLET_SQUAT"]

\* C24: a fresh detector fed accel = [0, 0, 9.81], gyro = [0, 0, 0] stays
\* IDLE on every sample up to the 100th, with no rep confirmed, no missed
\* rep recorded and energy 0.
C24_StillStaysIdle ==
    variant = "scenario" /\ session.wave = "still" =>
        /\ session.program = "selected" =>
              /\ det.state = "IDLE"
              /\ det.energy = 0
              /\ det.exerciseStats = ZeroStats
              /\ ~out.repDetected
        /\ session.program = "auto" =>
              /\ adet.state = "IDLE"
              /\ adet.energy = 0
              /\ TotalReps(adet.repCounts) = 0
              /\ adet.missedReps = 0
              /\ ~aout.repDetected

\* The auto-detect detector after the last still sample: it took the
\* still sensor for a goblet squat, and has counted nothing.
C24_Witness ==
    /\ variant = "scenario"
    /\ session.wave = "still"
    /\ session.program = "auto"
    /\ sampleNo = MaxSamples
    /\ adet.currentExercise = "GOBLET_SQUAT"
    /\ adet.state = "IDLE"
    /\ TotalReps(adet.repCounts) = 0

\* The number of samples of a 10 s run of the auto-detect program.
SamplesIn10s == 10 * FS_AUTO

\* C25: after 10 s of a gyro magnitude going 0 -> 3.0 -> 0 once a second
\* the auto-detect detector has confirmed 9 or 10 reps and is IDLE.
C25_AlternatingReps ==
    variant = "scenario" /\ session \in AlternatingScenarios /\ sampleNo = SamplesIn10s =>
        /\ TotalReps(adet.repCounts) \in {9, 10}
        /\ adet.state = "IDLE"

\* The first sample of the j-th period of the scenario's signal, the one
\* where the magnitude is 0.
PeriodStart(sc, j) == 1 - sc.offset + j * sc.period

\* The confirmed reps whose peak is one of the samples a .. b - 1.
RepsIn(a, b) == Cardinality({ i \in 1..Len(repPeaks) : a <= repPeaks[i] /\ repPeaks[i] < b })

\* C26: a gyro signal about the dominant axis with one peak per period, an
\* amplitude above MIN_REP_GYRO and a period above 2 * MIN_REP_MS gives
\* floor(duration / period) reps, one more or less, and exactly one rep
\* in every period that lies wholly inside the run.
C26_OneRepPerPeriod ==
    variant = "scenario" /\ session \in PeriodicScenarios =>
        /\ Abs(Len(repPeaks) - sampleNo \div session.period) <= 1
        /\ \A j \in 1..(MaxSamples \div session.period) :
              LET a == PeriodStart(session, j)
              IN  a + session.period + 2 <= sampleNo =>
                      RepsIn(a, a + session.period) = 1

\* C28: in the detector with a selected exercise, energy is 0 at the end
\* of the update that enters MOVING, each later update that stays MOVING
\* adds its filteredGyro / FS to it, and it is 0 after a confirmed rep,
\* after setExercise and after reset: while MOVING, energy is the sum of
\* filteredGyro / FS over the samples after the one that entered MOVING.
C28_EnergyIsEpisodeIntegral ==
    variant = "selected" =>
        /\ UpdateReturned /\ pre.currentExercise # NoExercise =>
              /\ pre.state = "IDLE" /\ det.state = "MOVING" => det.energy = 0
              /\ pre.state = "MOVING" /\ det.state = "MOVING" =>
                     det.energy = pre.energy + Div(det.lpFilter, FS)
              /\ out.repDetected => det.energy = 0
        /\ lastOp \in {"setExercise", "reset"} => det.energy = 0

\* The third sample of a movement: energy already held the second sample's
\* share and has grown by this one's.
C28_Witness ==
    /\ variant = "selected"
    /\ UpdateReturned
    /\ pre.state = "MOVING"
    /\ det.state = "MOVING"
    /\ pre.energy > 0
    /\ det.energy > pre.energy

\* The detector the scenario feeds.
Fed == IF session.program = "auto" THEN adet ELSE det

\* After an update that found sequence old full (n elements) and left it
\* full, the sequence holds old's elements but the first, then one more.
OldestEvicted(old, new, n) ==
    Len(old) = n /\ Len(new) = n => SubSeq(new, 1, n - 1) = Tail(old)

\* C29: the peak detector's window never holds more than 5 samples, its
\* peak history never more than 10 peaks, gyroBuffer and accMagnitudeBuffer
\* never more than 20 values, and a full one loses its oldest element to
\* the new one.
C29_BuffersBounded ==
    variant = "scenario" =>
        /\ Len(Fed.peakDetector.window) <= 5
        /\ Len(Fed.peakDetector.peaks) <= 10
        /\ Len(Fed.gyroBuffer) <= 20
        /\ Len(Fed.accMagnitudeBuffer) <= 20
        /\ lastOp = "update" =>
              /\ OldestEvicted(pre.peakDetector.window, Fed.peakDetector.window, 5)
              /\ Fed.peakDetector.peaks # pre.peakDetector.peaks =>
                     OldestEvicted(pre.peakDetector.peaks, Fed.peakDetector.peaks, 10)
              /\ OldestEvicted(pre.gyroBuffer, Fed.gyroBuffer, 20)
              /\ OldestEvicted(pre.accMagnitudeBuffer, Fed.accMagnitudeBuffer, 20)

\* An update of the first program that found all four full and pushed a
\* new element into each.
C29_Witness ==
    /\ variant = "scenario"
    /\ session.program = "selected"
    /\ lastOp = "update"
    /\ Len(pre.peakDetector.window) = 5 /\ Len(det.peakDetector.window) = 5
    /\ Len(pre.peakDetector.peaks) = 10 /\ det.peakDetector.peaks # pre.peakDetector.peaks
    /\ Len(pre.gyroBuffer) = 20 /\ det.gyroBuffer # pre.gyroBuffer
    /\ Len(pre.accMagnitudeBuffer) = 20 /\ Len(det.accMagnitudeBuffer) = 20

\* C30: whenever the cross product of the gravity estimate g with [1,0,0]
\* is shorter than 0.1, exactly 0 included, the frame's u is the normalized
\* cross(g, [0,1,0]) and is not the zero vector.
C30_FallbackAxis ==
    variant = "frame" /\ lastOp = "update" =>
        LET c == cross(session.g, <<Scale, 0, 0>>)
        IN  Hypot(c[1], c[2], c[3]) < 100 =>
                /\ session.u = normalize(cross(session.g, <<0, Scale, 0>>))
                /\ session.u # <<0, 0, 0>>

\* The characteristics with a notification handler registered.
Streams == { c \in Chars : ble.listeners[c] # {} }

\* C27: whatever the order of the subscribeCharacteristic calls, of the
\* moments their awaits resolve, of disconnects and of notifications, at
\* most one characteristic has a handler registered that feeds
\* detector.update.
C27_OneStream == variant = "ble" => Cardinality(Streams) <= 1

\* C31: when the gyro sample is [0, 0, 0] the features returned have
\* gyroMag = 0 and the three axis ratios equal to 0, whatever the
\* acceleration, the zero vector included.
C31_ZeroGyroZeroRatios ==
    variant = "frame" /\ lastOp = "update" /\ inp.gyro = <<0, 0, 0>> =>
        /\ out.features.gyroMag = 0
        /\ out.features.axisRatios = [gURatio |-> 0, gVRatio |-> 0, gWRatio |-> 0]

\* A zero gyro sample together with a zero acceleration.
C31_Witness ==
    /\ variant = "frame"
    /\ lastOp = "update"
    /\ inp.gyro = <<0, 0, 0>>
    /\ inp.acc = <<0, 0, 0>>
    /\ out.features.axisRatios.gURatio = 0

\* The Z-axis detector's update has just returned.
ZUpdateReturned == variant = "zaxis" /\ lastOp = "update"

\* The lookback of an axis holds a peak above REP_PEAK_THRESH, more than
\* MIN_REP_MS after the lastRepTime the update started with.
Qualifies(lookback) ==
    /\ Len(lookback) >= 3
    /\ lookback[Len(lookback) - 1] > lookback[Len(lookback) - 2]
    /\ lookback[Len(lookback) - 1] > lookback[Len(lookback)]
    /\ lookback[Len(lookback) - 1] > REP_PEAK_THRESH
    /\ out.timestamp - pre.lastRepTime > MIN_REP_MS

\* C32: every update of the Z-axis detector adds 1 to at most one of
\* goodReps, badReps and missedReps and nothing to the others; when Z has
\* a qualifying peak the rep is GOOD, whatever X and Y hold, and X comes
\* before Y.
C32_OneCounterPerUpdate ==
    ZUpdateReturned =>
        /\ <<det.goodReps - pre.goodReps, det.badReps - pre.badReps,
              det.missedReps - pre.missedReps>>
                \in { <<0, 0, 0>>, <<1, 0, 0>>, <<0, 1, 0>>, <<0, 0, 1>> }
        /\ Qualifies(det.lookbackZ) =>
              det.goodReps = pre.goodReps + 1 /\ out.repType = "GOOD" /\ out.repAxis = "Z"
        /\ ~Qualifies(det.lookbackZ) /\ Qualifies(det.lookbackX) =>
              det.badReps = pre.badReps + 1 /\ out.repType = "BAD" /\ out.repAxis = "X"
        /\ det.badReps = pre.badReps + 1 /\ out.repAxis = "Y" =>
              Qualifies(det.lookbackY) /\ ~Qualifies(det.lookbackX)

\* Z and X peak on the same update, and the rep is counted as GOOD.
C32_Witness ==
    /\ ZUpdateReturned
    /\ Qualifies(det.lookbackZ)
    /\ Qualifies(det.lookbackX)
    /\ det.goodReps = pre.goodReps + 1
    /\ det.badReps = pre.badReps

\* The events of type GOOD or BAD since the last reset.
IsRep(e) == e.type \in {"GOOD", "BAD"}

\* C33: with timestamps that never decrease, any two reps counted by the
\* Z-axis detector (GOOD or BAD, on any axes) are more than MIN_REP_MS
\* apart, and a rep comes more than MIN_REP_MS after the MISSED event
\* before it.
C33_RepsApart ==
    variant = "zaxis" =>
        \A i \in 1..Len(repPeaks) : \A j \in 1..Len(repPeaks) :
            i < j /\ IsRep(repPeaks[j]) => repPeaks[j].t - repPeaks[i].t > MIN_REP_MS

\* A rep counted after a MISSED event, and a rep counted after a rep.
C33_Witness ==
    /\ variant = "zaxis"
    /\ \E i \in 1..Len(repPeaks) : \E j \in 1..Len(repPeaks) :
          i < j /\ repPeaks[i].type = "MISSED" /\ IsRep(repPeaks[j])

\* Two reps of the Z-axis detector, one after the other.
C33_TwoReps ==
    /\ variant = "zaxis"
    /\ \E i \in 1..Len(repPeaks) : \E j \in 1..Len(repPeaks) :
          i < j /\ IsRep(repPeaks[i]) /\ IsRep(repPeaks[j])

\* C34: the Z-axis detector records a MISSED rep only on an update that
\* counted no GOOD or BAD rep, with a full lookback of LOOKBACK_SAMPLES Z
\* samples whose sum divided by FS exceeds MIN_REP_ENERGY, and more than
\* 2000 ms after lastRepTime; it increments missedReps only, and two MISSED
\* events are more than 2000 ms apart.
C34_MissedRep ==
    variant = "zaxis" =>
        /\ lastOp = "update" /\ (out.repType = "MISSED" \/ det.missedReps # pre.missedReps) =>
              /\ out.repType = "MISSED"
              /\ out.repDetected
              /\ ~checkAxes(calculateAxisEnergy(pre, inp.gyro), out.timestamp).detected
              /\ Len(det.lookbackZ) = LOOKBACK_SAMPLES
              /\ SumSeq(det.lookbackZ) > MIN_REP_ENERGY * FS
              /\ out.timestamp - pre.lastRepTime > 2000
              /\ det.missedReps = pre.missedReps + 1
              /\ det.goodReps = pre.goodReps
              /\ det.badReps = pre.badReps
              /\ det.lastRepTime = out.timestamp
        /\ \A i \in 1..Len(repPeaks) : \A j \in 1..Len(repPeaks) :
              i < j /\ repPeaks[i].type = "MISSED" /\ repPeaks[j].type = "MISSED"
                  => repPeaks[j].t - repPeaks[i].t > 2000

\* A second MISSED event is recorded.
C34_Witness ==
    /\ variant = "zaxis"
    /\ lastOp = "update"
    /\ out.repType = "MISSED"
    /\ \E i \in 1..Len(repPeaks) : i < Len(repPeaks) /\ repPeaks[i].type = "MISSED"

\* The smoothed signal of the gyro axis of largest deviation.
GyroSignal ==
    smooth(Channel(rt.imuBuffer,
                   Channels[4 + gyroAxisIndex(<<std(Channel(rt.imuBuffer, "gx")),
                                                std(Channel(rt.imuBuffer, "gy")),
                                                std(Channel(rt.imuBuffer, "gz"))>>)]),
           rt.fs)

\* C35: every gyro window [start, end] of the zero-crossing segmentation has
\* end - start >= floor(0.3 * fs) and an accumulated |signal| / fs above
\* 0.2, and the gyro windows are disjoint and in increasing order; every
\* accelerometer window has end - start >= floor(0.5 * fs) and start < end.
C35_RepWindows ==
    Segmented =>
        LET g == rt.res.work.gyroReps
            a == rt.res.work.accelReps
        IN  /\ \A k \in 1..Len(g) :
                  /\ 0 <= g[k][1]
                  /\ g[k][1] < g[k][2]
                  /\ g[k][2] < Len(rt.imuBuffer)
                  /\ g[k][2] - g[k][1] >= (3 * rt.fs) \div 10
                  /\ AbsSum(slice(GyroSignal, g[k][1], g[k][2])) > GYRO_MIN_ENERGY * rt.fs
            /\ \A k \in 1..(Len(g) - 1) : g[k][2] < g[k + 1][1]
            /\ \A k \in 1..Len(a) :
                  /\ 0 <= a[k][1]
                  /\ a[k][1] < a[k][2]
                  /\ a[k][2] < Len(rt.imuBuffer)
                  /\ a[k][2] - a[k][1] >= (5 * rt.fs) \div 10

\* Two gyro windows and an accelerometer window in one buffer.
C35_Witness ==
    /\ Segmented
    /\ Len(rt.res.work.gyroReps) >= 2
    /\ Len(rt.res.work.accelReps) >= 1

\* processIMURealtime has returned an object.
Returned == variant = "realtime" /\ rt.done /\ rt.res.outcome = "object"

\* C36: every non-null result of processIMURealtime has counts with one of
\* GOOD_BICEP and BAD_CURL equal to 1 and the other 0, the 1 being at
\* finalLabel, and finalLabel is GOOD_BICEP exactly when rawLabel is BICEP:
\* HAMMER, ARNOLD and UNKNOWN give BAD_CURL.
C36_CountsAndFinalLabel ==
    Returned =>
        LET ret == rt.res.ret
        IN  /\ DOMAIN ret.counts = {"GOOD_BICEP", "BAD_CURL"}
            /\ <<ret.counts.GOOD_BICEP, ret.counts.BAD_CURL>> \in { <<1, 0>>, <<0, 1>> }
            /\ ret.rawLabel \in {"BICEP", "HAMMER", "ARNOLD", "UNKNOWN"}
            /\ ret.finalLabel \in {"GOOD_BICEP", "BAD_CURL"}
            /\ ret.counts[ret.finalLabel] = 1
            /\ ret.finalLabel = "GOOD_BICEP" <=> ret.rawLabel = "BICEP"

\* A window recognised as a hammer curl is returned as a bad curl.
C36_Witness ==
    /\ Returned
    /\ rt.res.ret.rawLabel = "HAMMER"
    /\ rt.res.ret.finalLabel = "BAD_CURL"
    /\ rt.res.ret.counts.BAD_CURL = 1

\* Every label is returned by some buffer.
C36_Labels(l) == Returned /\ rt.res.ret.rawLabel = l

C36_Bicep == C36_Labels("BICEP")

C36_Arnold == C36_Labels("ARNOLD")

C36_Unknown == C36_Labels("UNKNOWN")

\* The rows of the file parsed last.
Parsed == parseLines(CsvFiles[csv.file].headers, CsvFiles[csv.file].lines, 1)

\* The numbers of the lines of a file that are not blank, in file order.
RECURSIVE DataLines(_, _)
DataLines(lines, n) ==
    IF n > Len(lines) THEN << >>
    ELSE (IF lines[n] = << >> THEN << >> ELSE <<n>>) \o DataLines(lines, n + 1)

\* The rows getNextSample has given to detector.update since parseCSV are
\* the first rows of the file, one per call and in file order; and it has
\* returned null exactly when no row was left.
C37_RowsInOrder ==
    variant = "csv" /\ csv.file # "" =>
        /\ Len(csv.fed) <= Len(Parsed)
        /\ \A k \in 1..Len(csv.fed) :
              /\ csv.fed[k] = Parsed[k]
              /\ csv.fed[k].line = DataLines(CsvFiles[csv.file].lines, 1)[k]
        /\ ~csv.wasReset => /\ csv.proc.currentIndex = Len(csv.fed)
                            /\ csv.proc.csvData = Parsed
        /\ csv.wasReset => csv.proc.csvData = << >> /\ csv.proc.currentIndex = 0
        /\ lastOp = "processNextCSVSample" =>
              /\ csv.result \in {"null", "sample"}
              /\ csv.result = "null" => csv.proc.currentIndex >= Len(csv.proc.csvData)
              /\ csv.result = "null" /\ ~csv.wasReset => csv.fed = Parsed

\* C37: CSV replay feeds each parsed row to the detector once and in file
\* order: the k-th getNextSample after parseCSV processes row k, and
\* getNextSample returns null once the rows are consumed and after
\* reset(); so the replay loop stops: a pending timer is followed by a
\* state with no pending timer and processingCSV false.
C37_ReplayOnceAndStops ==
    /\ []C37_RowsInOrder
    /\ (variant = "csv" /\ csv.timers # << >>) ~> (csv.timers = << >> /\ ~csv.processingCSV)

\* The three rows of a file have been fed and getNextSample returned null.
C37_Witness ==
    /\ variant = "csv"
    /\ lastOp = "processNextCSVSample"
    /\ csv.result = "null"
    /\ ~csv.wasReset
    /\ Len(csv.fed) = 3
    /\ csv.timers = << >>
    /\ ~csv.processingCSV

\* getNextSample returns null after reset().
C37_NullAfterReset ==
    /\ variant = "csv"
    /\ lastOp = "processNextCSVSample"
    /\ csv.result = "null"
    /\ csv.wasReset
    /\ Len(csv.fed) < Len(Parsed)

\* C38: at most one chain of processNextCSVSample timers is pending at any
\* time, whatever the order of uploads, resets and timer callbacks.
C38_OneTimerChain ==
    variant = "csv" =>
        Cardinality({csv.timers[i].chain : i \in 1..Len(csv.timers)}) <= 1

\* C39: the exerciseStats of a result of update reads, after any later
\* calls of update, as it did when the result was returned.
C39_SnapshotStable ==
    variant = "snapshot" =>
        \A n \in 1..Len(held.kept) : ReadStats(held.kept[n]) = held.kept[n].asReturned

\* C40: the peak detector reports a pushed sample as a peak at most once:
\* no two peaks returned by detect since construction or reset are the same
\* pushed sample.
C40_ReportedOnce ==
    variant = "peak" =>
        \A i \in 1..Len(pk.reports) : \A j \in 1..Len(pk.reports) :
            i < j => pk.reports[i].id # pk.reports[j].id

====
